---- MODULE Spec2Model ----
(***************************************************************************)
(* Chapter PDF ingestion service (pdf_management_service/                  *)
(* chapter_pdf_manager.py): the ChapterPDFManager orchestrator, the        *)
(* Pinecone index it writes, the local ingestion metadata, the local       *)
(* chapter files, the Firebase bucket and the Firestore mirror.            *)
(*                                                                         *)
(* A PDF is identified by its content ("A", "B", ...).  What the model     *)
(* keeps of a PDF is its fingerprint and the number of text chunks the     *)
(* extractor returns for it.  External calls (embedding service, vector    *)
(* store, object storage, file system) may raise; how many of them raise   *)
(* within one request is bounded by MaxFaults.                             *)
(***************************************************************************)
EXTENDS Integers, FiniteSets, Sequences, TLC

VARIABLES
    index,                \* Pinecone index: vector id -> vector metadata
    chapter_metadata,     \* self.chapter_metadata: chapter_key -> chapter_id -> record
    metadata_file,        \* data/chapter_metadata.json as last written
    local_files,          \* UPLOAD_FOLDER: file name -> content
    temp_files,           \* tempfile.gettempdir(): file name -> content
    bucket,               \* Firebase storage bucket: blob path -> content
    firestore,            \* Firestore collection 'chapters': doc id -> document
    firebase_initialized, \* self.firebase_initialized (self.db is set with it)
    openai_client,        \* self.openai_client
    pinecone_client,      \* self.pinecone_client (self.index is set with it)
    last,                 \* the last completed request: arguments, result, calls made
    returned,             \* history: key -> chunks_created of the upload that wrote its record
    requests,             \* number of requests served so far
    pc,                   \* thread -> phase of the call it is serving
    tl,                   \* thread -> arguments and locals of that call
    call,                 \* arguments of a call of one of the text and search functions
    result                \* what that call returned

vars == <<index, chapter_metadata, metadata_file, local_files, temp_files, bucket,
          firestore, firebase_initialized, openai_client, pinecone_client, last, returned,
          requests, pc, tl, call, result>>

(***************************************************************************)
(* Bounds                                                                  *)
(***************************************************************************)
\* chunks the extractor returns for the larger of the two ordinary PDFs
MaxChunks == 2
\* sentences of a text given to chunk_text
MaxSentences == 3
\* words of a sentence
MaxSentenceWords == 4
\* largest max_chunk_size chunk_text is configured with
MaxChunkSize == 3
\* pages a document has beyond the page limit
MaxExtraPages == 2
\* words on a page of a document
MaxWordsPerPage == 3
\* pieces of a text given to detect_chapters
MaxTokens == 3
\* books uploaded to the whole-book pipeline
MaxUploads == 2
\* external calls that may raise within one request
MaxFaults == 1
\* requests served in one run
MaxRequests == 3
\* external calls that may raise within one request served by a thread
MaxThreadFaults == 0

(***************************************************************************)
(* Program constants                                                       *)
(***************************************************************************)
batch_size == 10
MaxDeleteBatches == 10
DeleteTopK == 100
MaxChunkIds == 1000
ChunkCap == 50

None == "None"

\* request threads of the server
Threads == {1, 2}

(***************************************************************************)
(* Inputs                                                                  *)
(***************************************************************************)
\* PDF contents: "A" and "B" are ordinary chapters, "E" yields no text
Files == {"A", "B", "E"}

\* number of chunks extract_text_chunks returns for a PDF ([] on a parse
\* error or when no chunk is kept)
ChunkCount(f) ==
    CASE f = "A" -> MaxChunks
      [] f = "B" -> 1
      [] f = "L" -> batch_size
      [] f = "M" -> ChunkCap
      [] OTHER -> 0

\* text of chunk i of a PDF
ChunkText(f, i) == <<f, i>>

\* SHA-256 hexdigest of a file's bytes
FileHash(f) == "sha256_" \o f

\* the part of NCTB_CHAPTERS the model carries
NCTB_CHAPTERS == {"real_numbers", "real_numbers_advanced"}

\* (class_level, chapter_id) pairs requests are made with
InputKeys == { <<10, "real_numbers">>, <<10, "real_numbers_advanced">>,
               <<9, "real_numbers_advanced">>, <<11, "real_numbers">>,
               <<10, "unknown">> }

IsAdvanced(chapter_id) == chapter_id = "real_numbers_advanced"

get_chapters_for_class(class_level) ==
    IF class_level = 9 THEN {k \in NCTB_CHAPTERS : ~IsAdvanced(k)}
    ELSE IF class_level = 10 THEN NCTB_CHAPTERS
    ELSE {}

is_valid_chapter_for_class(chapter_id, class_level) ==
    chapter_id \in get_chapters_for_class(class_level)

(***************************************************************************)
(* Names derived from (class_level, chapter_id)                            *)
(***************************************************************************)
ChapterKey(class_level) == "class_" \o ToString(class_level)

Filename(class_level, chapter_id) ==
    "class_" \o ToString(class_level) \o "_" \o chapter_id \o ".pdf"

TempPath(class_level, chapter_id) == "temp_" \o Filename(class_level, chapter_id)

FirebasePath(class_level, chapter_id) ==
    "chapters/class_" \o ToString(class_level) \o "/" \o chapter_id \o ".pdf"

FirebaseUrl(path) == "https://storage/" \o path

DocId(class_level, chapter_id) == ToString(class_level) \o "_" \o chapter_id

ChunkId(class_level, chapter_id, i) ==
    ToString(class_level) \o "_" \o chapter_id \o "_chunk_" \o ToString(i)

(***************************************************************************)
(* Dictionaries (Python dict, directory, bucket): functions whose domain   *)
(* is the set of keys present                                              *)
(***************************************************************************)
EmptyDict == [x \in {} |-> None]

Put(d, key, val) == [x \in DOMAIN d \cup {key} |-> IF x = key THEN val ELSE d[x]]

PutAll(d, new) == [x \in DOMAIN d \cup DOMAIN new |-> IF x \in DOMAIN new THEN new[x] ELSE d[x]]

Remove(d, keys) == [x \in DOMAIN d \ keys |-> d[x]]

\* existing_metadata.get(...) on a missing record: every field reads as absent
EmptyMeta ==
    [filename |-> None, local_path |-> None, firebase_url |-> None,
     firebase_path |-> None, file_hash |-> None, text_chunks_count |-> 0]

\* self.chapter_metadata.get(chapter_key, {}).get(chapter_id, {})
MetaGet(md, class_level, chapter_id) ==
    IF ChapterKey(class_level) \in DOMAIN md
       /\ chapter_id \in DOMAIN md[ChapterKey(class_level)]
    THEN md[ChapterKey(class_level)][chapter_id]
    ELSE EmptyMeta

HasRecord(md, class_level, chapter_id) ==
    /\ ChapterKey(class_level) \in DOMAIN md
    /\ chapter_id \in DOMAIN md[ChapterKey(class_level)]

(***************************************************************************)
(* The shared state as one value, and the record of a request              *)
(***************************************************************************)
St ==
    [index |-> index, chapter_metadata |-> chapter_metadata,
     metadata_file |-> metadata_file, local_files |-> local_files,
     temp_files |-> temp_files, bucket |-> bucket, firestore |-> firestore,
     firebase_initialized |-> firebase_initialized,
     openai_client |-> openai_client, pinecone_client |-> pinecone_client]

NoRequest ==
    [op |-> "none", class_level |-> 0, chapter_id |-> None, file |-> None,
     force |-> FALSE,
     \* the result returned
     exit |-> None, success |-> FALSE, chunks_created |-> 0,
     requires_confirmation |-> FALSE, existing_hash |-> None,
     existing_url |-> None, new_hash |-> None,
     firebase_status |-> None, firebase_url |-> None,
     student_download_ready |-> FALSE,
     \* the calls made while serving it
     chapter_exists |-> FALSE, delete_result |-> "not_called",
     delete_rounds |-> 0, after_delete |-> {}, extract_calls |-> 0, extracted |-> 0,
     extracted_from |-> None, hash_calls |-> 0,
     embed_calls |-> 0, embed_failures |-> 0, query_calls |-> 0,
     delete_calls |-> 0, upsert_calls |-> 0, upsert_failures |-> 0,
     upserted |-> {}, publish_attempts |-> 0, ext_writes |-> {},
     record_written |-> FALSE]

\* no call of a text or search function has been made
NoCall == [op |-> "none"]

\* a request in progress: state so far, result so far, faults still allowed
Ctx(S, r, faults) ==
    [S |-> S, r |-> r, faults |-> faults, ret |-> FALSE, pc |-> "start"]

(***************************************************************************)
(* The vector store (self.index)                                           *)
(***************************************************************************)
\* ids of the vectors whose metadata passes the filter
\* {'class_level': {'$eq': class_level}, 'chapter_id': {'$eq': chapter_id}}
Matches(idx, class_level, chapter_id) ==
    {id \in DOMAIN idx : /\ idx[id].class_level = class_level
                          /\ idx[id].chapter_id = chapter_id}

\* the match sets index.query(top_k=...) can return: at most top_k matches
QueryResults(idx, class_level, chapter_id, top_k) ==
    LET m == Matches(idx, class_level, chapter_id)
    IN  IF Cardinality(m) <= top_k THEN {m}
        ELSE {s \in SUBSET m : Cardinality(s) = top_k}

\* the vectors create_embeddings builds for chunks `chunks` of PDF f
NewVectors(chunks, f, class_level, chapter_id) ==
    [id \in {ChunkId(class_level, chapter_id, j) : j \in chunks} |->
        LET j == CHOOSE j \in chunks : ChunkId(class_level, chapter_id, j) = id
        IN  [class_level |-> class_level, chapter_id |-> chapter_id,
             chunk_index |-> j, text |-> ChunkText(f, j)]]

\* index.upsert(vectors=...): a vector with an id already present is replaced
Upsert(idx, new) == PutAll(idx, new)

\* index.delete(ids=...)
DeleteIds(idx, ids) == Remove(idx, ids)

\* check_chapter_exists_in_pinecone: one top_k=1 query; any exception is
\* swallowed and reported as "does not exist"
check_chapter_exists_in_pinecone(ctx, class_level, chapter_id) ==
    IF ~ctx.S.pinecone_client
    THEN {[ctx EXCEPT !.r.chapter_exists = FALSE]}
    ELSE
      {[ctx EXCEPT !.r.query_calls = @ + 1,
                   !.r.chapter_exists =
                       Matches(ctx.S.index, class_level, chapter_id) # {}]}
      \cup
      (IF ctx.faults > 0
       THEN {[ctx EXCEPT !.r.query_calls = @ + 1, !.faults = @ - 1,
                         !.r.chapter_exists = FALSE]}
       ELSE {})

\* the loop of delete_existing_chapter_chunks: round i queries up to 100
\* matches and deletes them; the first exception ends the call with False
RECURSIVE DeleteLoop(_, _, _, _, _)
DeleteLoop(ctx, class_level, chapter_id, i, all_ids) ==
    LET done(c, ok) ==
            [c EXCEPT !.ret = ok,
                      !.r.delete_result = IF ok THEN "True" ELSE "False",
                      !.r.delete_rounds = i,
                      !.r.after_delete = Matches(c.S.index, class_level, chapter_id)]
        raised(c) == [c EXCEPT !.faults = @ - 1]
    IN
    IF i = MaxDeleteBatches THEN {done(ctx, all_ids # {})}
    ELSE
      LET q == [ctx EXCEPT !.r.query_calls = @ + 1] IN
      (IF ctx.faults > 0 THEN {done(raised(q), FALSE)} ELSE {})
      \cup
      UNION {
        IF batch_ids = {} THEN {done(q, all_ids # {})}
        ELSE
          LET d == [q EXCEPT !.r.delete_calls = @ + 1] IN
          (IF q.faults > 0 THEN {done(raised(d), FALSE)} ELSE {})
          \cup
          DeleteLoop([d EXCEPT !.S.index = DeleteIds(@, batch_ids)],
                     class_level, chapter_id, i + 1, all_ids \cup batch_ids)
        : batch_ids \in QueryResults(ctx.S.index, class_level, chapter_id, DeleteTopK) }

delete_existing_chapter_chunks(ctx, class_level, chapter_id) ==
    IF ~ctx.S.pinecone_client
    THEN {[ctx EXCEPT !.ret = FALSE, !.r.delete_result = "False",
                      !.r.after_delete = Matches(ctx.S.index, class_level, chapter_id)]}
    ELSE DeleteLoop(ctx, class_level, chapter_id, 0, {})

(***************************************************************************)
(* create_embeddings                                                       *)
(***************************************************************************)
\* self.index.upsert(vectors=vectors) with the pending vectors
UpsertPending(ctx, pending, f, class_level, chapter_id) ==
    [ctx EXCEPT !.S.index = Upsert(@, NewVectors(pending, f, class_level, chapter_id)),
                !.r.upsert_calls = @ + 1,
                !.r.upserted = @ \cup {ChunkId(class_level, chapter_id, j) : j \in pending}]

UpsertRaises(ctx) ==
    [ctx EXCEPT !.faults = @ - 1, !.r.upsert_calls = @ + 1, !.r.upsert_failures = @ + 1]

\* the for loop over the chunks and the final upload: `pending` is the list
\* `vectors`, i the index of the next chunk, n the number of chunks
RECURSIVE EmbedLoop(_, _, _, _, _, _, _)
EmbedLoop(ctx, pending, i, n, f, class_level, chapter_id) ==
    IF i = n THEN
      IF pending = {} THEN {[ctx EXCEPT !.ret = TRUE]}
      ELSE
        {[UpsertPending(ctx, pending, f, class_level, chapter_id) EXCEPT !.ret = TRUE]}
        \cup
        (IF ctx.faults > 0 THEN {[UpsertRaises(ctx) EXCEPT !.ret = FALSE]} ELSE {})
    ELSE
      LET e == [ctx EXCEPT !.r.embed_calls = @ + 1]
          vectors == pending \cup {i}
      IN
      \* openai.Embedding.create raises: the chunk is skipped
      (IF ctx.faults > 0
       THEN EmbedLoop([e EXCEPT !.faults = @ - 1, !.r.embed_failures = @ + 1],
                      pending, i + 1, n, f, class_level, chapter_id)
       ELSE {})
      \cup
      (IF Cardinality(vectors) >= batch_size
       THEN
         EmbedLoop(UpsertPending(e, vectors, f, class_level, chapter_id),
                   {}, i + 1, n, f, class_level, chapter_id)
         \cup
         \* the batch upsert raises inside the per-chunk try: the batch stays
         (IF e.faults > 0
          THEN EmbedLoop(UpsertRaises(e), vectors, i + 1, n, f, class_level, chapter_id)
          ELSE {})
       ELSE EmbedLoop(e, vectors, i + 1, n, f, class_level, chapter_id))

\* n chunks of PDF f
create_embeddings(ctx, n, f, class_level, chapter_id) ==
    IF ~ctx.S.openai_client \/ ~ctx.S.pinecone_client
    THEN {[ctx EXCEPT !.ret = FALSE]}
    ELSE EmbedLoop(ctx, {}, 0, n, f, class_level, chapter_id)


(***************************************************************************)
(* Local metadata file, object storage, Firestore                          *)
(***************************************************************************)
\* _save_metadata: an exception while writing is logged and swallowed
save_metadata(ctx) ==
    {[ctx EXCEPT !.S.metadata_file = ctx.S.chapter_metadata]}
    \cup
    (IF ctx.faults > 0 THEN {[ctx EXCEPT !.faults = @ - 1]} ELSE {})

SignedUrl(path) == "https://firebasestorage/" \o path \o "?token"

\* blob.upload_from_filename + make_public, and on a missing create
\* permission _upload_file_via_signed_url; ret is firebase_upload_success
PublishToFirebase(ctx, local_path, firebase_path) ==
    LET a == [ctx EXCEPT !.r.publish_attempts = @ + 1,
                         !.r.ext_writes = @ \cup {"bucket"}]
        stored(c, url) ==
            [c EXCEPT !.S.bucket = Put(@, firebase_path, c.S.local_files[local_path]),
                      !.r.firebase_url = url, !.ret = TRUE]
    IN
    {stored(a, FirebaseUrl(firebase_path))}
    \cup
    (IF a.faults > 0
     THEN
       LET b == [a EXCEPT !.faults = @ - 1] IN
       \* the Admin SDK upload raises something else than a permission error
       {[b EXCEPT !.ret = FALSE]}
       \cup
       \* permission error, then the signed URL upload
       {stored([b EXCEPT !.r.publish_attempts = @ + 1], SignedUrl(firebase_path))}
       \cup
       (IF b.faults > 0
        THEN {[b EXCEPT !.faults = @ - 1, !.r.publish_attempts = @ + 1, !.ret = FALSE]}
        ELSE {})
     ELSE {})

\* self.db.collection('chapters').document(doc_id).set(data); a failure is logged
FirestoreSet(ctx, doc_id, data) ==
    LET a == [ctx EXCEPT !.r.ext_writes = @ \cup {"firestore"}] IN
    {[a EXCEPT !.S.firestore = Put(@, doc_id, data)]}
    \cup
    (IF a.faults > 0 THEN {[a EXCEPT !.faults = @ - 1]} ELSE {})

\* ...document(doc_id).update(fields): fails when the document does not exist
FirestoreUpdate(ctx, doc_id, url, path) ==
    LET a == [ctx EXCEPT !.r.ext_writes = @ \cup {"firestore"}] IN
    (IF doc_id \in DOMAIN a.S.firestore
     THEN {[a EXCEPT !.S.firestore[doc_id].download_url = url,
                     !.S.firestore[doc_id].firebase_path = path,
                     !.S.firestore[doc_id].is_available = TRUE]}
     ELSE {a})
    \cup
    (IF a.faults > 0 THEN {[a EXCEPT !.faults = @ - 1]} ELSE {})

FirebaseStatus(firebase_upload_success) ==
    IF firebase_upload_success THEN "uploaded_for_students"
    ELSE "local_only_no_student_access"

(***************************************************************************)
(* upload_chapter_pdf, phase by phase.  ctx.r carries the arguments and    *)
(* the locals of the call, ctx.pc the phase to run next.                   *)
(***************************************************************************)
Exit(ctx, how) == [ctx EXCEPT !.r.exit = how, !.pc = "done"]

\* the upload is saved to the temp path before the arguments are validated
ValidateAfterSave(ctx) ==
    LET class_level == ctx.r.class_level
        chapter_id == ctx.r.chapter_id
        saved == [ctx EXCEPT !.S.temp_files =
                                 Put(@, TempPath(class_level, chapter_id), ctx.r.file)]
    IN
    IF ~is_valid_chapter_for_class(chapter_id, class_level)
    THEN {Exit(saved, "invalid_chapter")}
    ELSE {[saved EXCEPT !.pc = "hash"]}

\* lines 572-587: validate the arguments, save the upload to the temp path
ValidateAndSave(ctx) ==
    LET class_level == ctx.r.class_level
        chapter_id == ctx.r.chapter_id
    IN
    IF ~is_valid_chapter_for_class(chapter_id, class_level)
    THEN {Exit(ctx, "invalid_chapter")}
    ELSE IF class_level \notin {9, 10}
    THEN {Exit(ctx, "invalid_class")}
    ELSE {[ctx EXCEPT !.S.temp_files =
                          Put(@, TempPath(class_level, chapter_id), ctx.r.file),
                      !.pc = "hash"]}

\* calculate_file_hash: the digest of the file at the path, None on a read error
calculate_file_hash(ctx, path) ==
    LET h == [ctx EXCEPT !.r.hash_calls = @ + 1] IN
    IF path \notin DOMAIN h.S.temp_files
    THEN {[h EXCEPT !.r.new_hash = None]}
    ELSE
      {[h EXCEPT !.r.new_hash = FileHash(h.S.temp_files[path])]}
      \cup
      (IF h.faults > 0 THEN {[h EXCEPT !.faults = @ - 1, !.r.new_hash = None]} ELSE {})

\* the duplicate check dropped: an identical file is processed again
SkipIdenticalReprocess(ctx, existing_metadata) == {[ctx EXCEPT !.pc = "move"]}

\* lines 600-669: the incoming fingerprint equals the recorded one, not forced
SkipIdentical(ctx, existing_metadata) ==
    LET class_level == ctx.r.class_level
        chapter_id == ctx.r.chapter_id
        chapter_key == ChapterKey(class_level)
        temp_path == TempPath(class_level, chapter_id)
        firebase_path == FirebasePath(class_level, chapter_id)
        chunks_count == existing_metadata.text_chunks_count
        url == existing_metadata.firebase_url
        local_path == existing_metadata.local_path
        c0 == [ctx EXCEPT !.S.temp_files = Remove(@, {temp_path}),
                          !.r.firebase_url = url]
        finish(x, firebase_upload_success) ==
            [Exit(x, "skipped_identical_file") EXCEPT
                !.r.success = TRUE,
                !.r.chunks_created = chunks_count,
                !.r.firebase_status = FirebaseStatus(firebase_upload_success),
                !.r.student_download_ready = firebase_upload_success]
    IN
    \* os.remove(temp_path) on a file that is gone raises
    IF temp_path \notin DOMAIN ctx.S.temp_files THEN {Exit(ctx, "exception")}
    ELSE IF url = None /\ ctx.S.firebase_initialized
            /\ local_path # None /\ local_path \in DOMAIN ctx.S.local_files
    THEN
      UNION {
        \* the record is gone: the item assignment raises, caught at line 654
        IF ~HasRecord(p.S.chapter_metadata, class_level, chapter_id)
        THEN {finish(p, p.ret)}
        ELSE
          LET m == [p EXCEPT
                      !.S.chapter_metadata[chapter_key][chapter_id].firebase_url =
                          p.r.firebase_url,
                      !.S.chapter_metadata[chapter_key][chapter_id].firebase_path =
                          firebase_path]
          IN
          UNION {
            IF p.ret
            THEN {finish(d, p.ret) :
                    d \in FirestoreUpdate(s, DocId(class_level, chapter_id),
                                          p.r.firebase_url, firebase_path)}
            ELSE {finish(s, p.ret)}
            : s \in save_metadata(m) }
        : p \in PublishToFirebase(c0, local_path, firebase_path) }
    ELSE {finish(c0, url # None)}

\* lines 589-600: fingerprint, lookup of the record, the duplicate decision
HashAndClassify(ctx) ==
    LET class_level == ctx.r.class_level
        chapter_id == ctx.r.chapter_id
        temp_path == TempPath(class_level, chapter_id)
    IN
    UNION {
      IF h.r.new_hash = None
      THEN {Exit([h EXCEPT !.S.temp_files = Remove(@, {temp_path})], "hash_failed")}
      ELSE
        LET existing_metadata ==
                MetaGet(h.S.chapter_metadata, class_level, chapter_id)
            g == [h EXCEPT !.r.existing_hash = existing_metadata.file_hash,
                           !.r.existing_url = existing_metadata.firebase_url]
        IN
        IF existing_metadata.file_hash = h.r.new_hash /\ ~h.r.force
        THEN SkipIdentical(g, existing_metadata)
        ELSE {[g EXCEPT !.pc = "exists"]}
      : h \in calculate_file_hash(ctx, temp_path) }

\* lines 671-711: existence check and the same-content return
CheckExists(ctx) ==
    LET class_level == ctx.r.class_level
        chapter_id == ctx.r.chapter_id
        existing_hash == ctx.r.existing_hash
        file_hash == ctx.r.new_hash
        url == ctx.r.existing_url
    IN
    UNION {
      IF /\ x.r.chapter_exists /\ ~x.r.force
         /\ ~(existing_hash # None /\ existing_hash # file_hash)
         /\ existing_hash = file_hash
      THEN {[Exit([x EXCEPT !.S.temp_files =
                               Remove(@, {TempPath(class_level, chapter_id)})],
                  "skipped_same_content") EXCEPT
                !.r.success = TRUE,
                !.r.chunks_created =
                    MetaGet(x.S.chapter_metadata, class_level, chapter_id).text_chunks_count,
                !.r.firebase_url = url,
                !.r.firebase_status = FirebaseStatus(url # None),
                !.r.student_download_ready = (url # None)]}
      ELSE IF x.r.chapter_exists \/ x.r.force
      THEN {[x EXCEPT !.pc = "delete"]}
      ELSE {[x EXCEPT !.pc = "move"]}
      : x \in check_chapter_exists_in_pinecone(ctx, class_level, chapter_id) }

\* lines 711-713: the old chunks are deleted; the result is not looked at
DeleteOld(ctx) ==
    {[d EXCEPT !.pc = "move"] :
       d \in delete_existing_chapter_chunks(ctx, ctx.r.class_level, ctx.r.chapter_id)}

\* lines 715-726: move (or copy) the temp file to the chapter folder
MoveFile(ctx) ==
    LET temp_path == TempPath(ctx.r.class_level, ctx.r.chapter_id)
        local_path == Filename(ctx.r.class_level, ctx.r.chapter_id)
    IN
    IF temp_path \notin DOMAIN ctx.S.temp_files THEN {Exit(ctx, "save_failed")}
    ELSE
      {[ctx EXCEPT !.S.local_files = Put(@, local_path, ctx.S.temp_files[temp_path]),
                   !.S.temp_files = Remove(@, {temp_path}),
                   !.pc = "extract"]}
      \cup
      (IF ctx.faults > 0 THEN {Exit([ctx EXCEPT !.faults = @ - 1], "save_failed")} ELSE {})

\* lines 728-732: extract_text_chunks(local_path)
ExtractChunks(ctx) ==
    LET local_path == Filename(ctx.r.class_level, ctx.r.chapter_id)
        content == ctx.S.local_files[local_path]
        n == ChunkCount(content)
        x == [ctx EXCEPT !.r.extract_calls = @ + 1, !.r.extracted = n,
                         !.r.extracted_from = content]
    IN
    IF n = 0 THEN {Exit(x, "extract_failed")} ELSE {[x EXCEPT !.pc = "embed"]}

\* lines 734-737: create_embeddings(text_chunks, class_level, chapter_id)
EmbedChunks(ctx) ==
    {IF e.ret THEN [e EXCEPT !.pc = "publish"] ELSE Exit(e, "embed_failed") :
       e \in create_embeddings(ctx, ctx.r.extracted, ctx.r.extracted_from,
                               ctx.r.class_level, ctx.r.chapter_id)}

\* a failed publication ends the call with a failure
PublishAbortsOnFailure(ctx) ==
    {IF p.ret THEN [p EXCEPT !.r.student_download_ready = TRUE, !.pc = "record"]
     ELSE Exit(p, "publish_failed") :
       p \in (IF ctx.S.firebase_initialized
              THEN PublishToFirebase(ctx, Filename(ctx.r.class_level, ctx.r.chapter_id),
                                     FirebasePath(ctx.r.class_level, ctx.r.chapter_id))
              ELSE {[ctx EXCEPT !.ret = FALSE]})}

\* lines 738-776: upload the PDF to Firebase Storage
Publish(ctx) ==
    {[p EXCEPT !.r.student_download_ready = p.ret, !.pc = "record"] :
       p \in (IF ctx.S.firebase_initialized
              THEN PublishToFirebase(ctx, Filename(ctx.r.class_level, ctx.r.chapter_id),
                                     FirebasePath(ctx.r.class_level, ctx.r.chapter_id))
              ELSE {[ctx EXCEPT !.ret = FALSE]})}

\* line 779: the test `chapter_key not in self.chapter_metadata`; another
\* thread can run between the test and the assignments that follow it
ClassEntryTest(ctx) ==
    {[ctx EXCEPT !.ret = ChapterKey(ctx.r.class_level) \notin DOMAIN ctx.S.chapter_metadata,
                 !.pc = "write"]}

\* the class entry is rebuilt with the new record alone
RecordReplacesAll(ctx) ==
    LET class_level == ctx.r.class_level
        chapter_id == ctx.r.chapter_id
        record ==
            [filename |-> Filename(class_level, chapter_id),
             local_path |-> Filename(class_level, chapter_id),
             firebase_url |-> ctx.r.firebase_url, firebase_path |-> None,
             file_hash |-> ctx.r.new_hash, text_chunks_count |-> ctx.r.extracted]
    IN
    {[Exit(ctx, "processed") EXCEPT
        !.S.chapter_metadata =
            Put(@, ChapterKey(class_level), Put(EmptyDict, chapter_id, record)),
        !.r.record_written = TRUE, !.r.success = TRUE,
        !.r.chunks_created = ctx.r.extracted,
        !.r.firebase_status = FirebaseStatus(ctx.r.student_download_ready)]}

\* lines 780-847: make the class entry when the test found none, write the
\* record, save it, mirror to Firestore, return
Record(ctx) ==
    LET class_level == ctx.r.class_level
        chapter_id == ctx.r.chapter_id
        chapter_key == ChapterKey(class_level)
        filename == Filename(class_level, chapter_id)
        firebase_upload_success == ctx.r.student_download_ready
        firebase_path ==
            IF ctx.S.firebase_initialized THEN FirebasePath(class_level, chapter_id)
            ELSE None
        n == ctx.r.extracted
        record ==
            [filename |-> filename, local_path |-> filename,
             firebase_url |-> ctx.r.firebase_url, firebase_path |-> firebase_path,
             file_hash |-> ctx.r.new_hash, text_chunks_count |-> n]
        doc ==
            [download_url |-> ctx.r.firebase_url, firebase_path |-> firebase_path,
             text_chunks_count |-> n, file_hash |-> ctx.r.new_hash,
             is_available |-> TRUE]
        class_dict(md) == IF ctx.ret THEN EmptyDict ELSE md[chapter_key]
        m == [ctx EXCEPT
                !.S.chapter_metadata =
                    Put(@, chapter_key, Put(class_dict(@), chapter_id, record)),
                !.r.record_written = TRUE]
        finish(x) ==
            [Exit(x, "processed") EXCEPT
                !.r.success = TRUE,
                !.r.chunks_created = n,
                !.r.firebase_status = FirebaseStatus(firebase_upload_success)]
    IN
    UNION {
      IF firebase_upload_success
      THEN {finish(d) : d \in FirestoreSet(s, DocId(class_level, chapter_id), doc)}
      ELSE {finish(s)}
      : s \in save_metadata(m) }

\* one phase of the call
Step(ctx) ==
    CASE ctx.pc = "start" -> ValidateAndSave(ctx)
      [] ctx.pc = "hash" -> HashAndClassify(ctx)
      [] ctx.pc = "exists" -> CheckExists(ctx)
      [] ctx.pc = "delete" -> DeleteOld(ctx)
      [] ctx.pc = "move" -> MoveFile(ctx)
      [] ctx.pc = "extract" -> ExtractChunks(ctx)
      [] ctx.pc = "embed" -> EmbedChunks(ctx)
      [] ctx.pc = "publish" -> Publish(ctx)
      [] ctx.pc = "record" -> ClassEntryTest(ctx)
      [] ctx.pc = "write" -> Record(ctx)

RECURSIVE RunToEnd(_)
RunToEnd(ctx) ==
    IF ctx.pc = "done" THEN {ctx} ELSE UNION {RunToEnd(x) : x \in Step(ctx)}

\* the arguments of a call
Call(file, class_level, chapter_id, force_reupload) ==
    [NoRequest EXCEPT !.op = "upload", !.class_level = class_level,
                      !.chapter_id = chapter_id, !.file = file,
                      !.force = force_reupload]

\* the whole method: the ways one call can end when nothing else runs
upload_chapter_pdf(S, file, class_level, chapter_id, force_reupload) ==
    RunToEnd(Ctx(S, Call(file, class_level, chapter_id, force_reupload), MaxFaults))

(***************************************************************************)
(* Requests served one at a time                                           *)
(***************************************************************************)
Commit(x) ==
    /\ index' = x.S.index
    /\ chapter_metadata' = x.S.chapter_metadata
    /\ metadata_file' = x.S.metadata_file
    /\ local_files' = x.S.local_files
    /\ temp_files' = x.S.temp_files
    /\ bucket' = x.S.bucket
    /\ firestore' = x.S.firestore
    /\ UNCHANGED <<firebase_initialized, openai_client, pinecone_client>>

\* POST /upload
Upload(class_level, chapter_id, file, force_reupload) ==
    \E x \in upload_chapter_pdf(St, file, class_level, chapter_id, force_reupload) :
        /\ Commit(x)
        /\ last' = x.r
        /\ requests' = requests + 1
        /\ returned' = IF x.r.record_written
                       THEN Put(returned, <<class_level, chapter_id>>, x.r.chunks_created)
                       ELSE returned
        /\ UNCHANGED <<pc, tl, call, result>>

Init ==
    /\ index = EmptyDict
    /\ chapter_metadata = EmptyDict
    /\ metadata_file = EmptyDict
    /\ local_files = EmptyDict
    /\ temp_files = EmptyDict
    /\ bucket = EmptyDict
    /\ firestore = EmptyDict
    /\ firebase_initialized \in BOOLEAN
    /\ openai_client \in BOOLEAN
    /\ pinecone_client \in BOOLEAN
    /\ last = NoRequest
    /\ returned = EmptyDict
    /\ requests = 0
    /\ pc = [t \in Threads |-> "idle"]
    /\ tl = [t \in Threads |-> Ctx(EmptyDict, NoRequest, 0)]
    /\ call = NoCall
    /\ result = NoCall

\* requests for the given keys with the given PDFs, one after the other
Requests(keys, files) ==
    /\ requests < MaxRequests
    /\ \E k \in keys, file \in files, force_reupload \in BOOLEAN :
           Upload(k[1], k[2], file, force_reupload)

\* one chapter, ordinary and unreadable PDFs
Next == Requests({<<10, "real_numbers">>}, Files)

Spec == Init /\ [][Next]_vars

\* one chapter, a PDF of batch_size chunks: the in-loop batch upload happens
BigFiles == {"L"}

NextBatch == Requests({<<10, "real_numbers">>}, BigFiles)

SpecBatch == Init /\ [][NextBatch]_vars

\* every key of InputKeys, valid or not, with a PDF of one chunk
KeyFiles == {"B"}

NextKeys == Requests(InputKeys, KeyFiles)

SpecKeys == Init /\ [][NextKeys]_vars

(***************************************************************************)
(* delete_chapter, and uploads and deletions of one chapter served one at  *)
(* a time                                                                  *)
(***************************************************************************)
\* chunk_ids of delete_chapter
DeleteChapterIds(class_level, chapter_id) ==
    {ChunkId(class_level, chapter_id, i) : i \in 0..(MaxChunkIds - 1)}

\* the blob delete_chapter deletes
DeleteBlobPath(class_level, chapter_id) == "chapters/" \o Filename(class_level, chapter_id)

\* only the ids of the first batch_size chunks are enumerated
delete_chapter_first_batch(ctx) ==
    LET class_level == ctx.r.class_level
        chapter_id == ctx.r.chapter_id
        ids == {ChunkId(class_level, chapter_id, i) : i \in 0..(batch_size - 1)}
        d == [ctx EXCEPT !.S.index = DeleteIds(@, ids), !.r.delete_calls = @ + 1,
                         !.r.delete_result = "True"]
    IN  {[Exit(d, "deleted") EXCEPT
            !.r.after_delete = Matches(d.S.index, class_level, chapter_id),
            !.r.success = TRUE]}

\* the whole method; any exception ends it with success False
delete_chapter(ctx) ==
    LET class_level == ctx.r.class_level
        chapter_id == ctx.r.chapter_id
        chapter_key == ChapterKey(class_level)
        blob == DeleteBlobPath(class_level, chapter_id)
        vectors(c) ==
            IF ~c.S.pinecone_client THEN {c}
            ELSE
              LET d == [c EXCEPT !.r.delete_calls = @ + 1] IN
              {[d EXCEPT !.S.index = DeleteIds(@, DeleteChapterIds(class_level, chapter_id)),
                         !.r.delete_result = "True",
                         !.r.after_delete =
                             Matches(d.S.index, class_level, chapter_id)
                               \ DeleteChapterIds(class_level, chapter_id)]}
              \cup
              (IF d.faults > 0
               THEN {Exit([d EXCEPT !.faults = @ - 1, !.r.delete_result = "False",
                                    !.r.after_delete =
                                        Matches(d.S.index, class_level, chapter_id)],
                          "exception")}
               ELSE {})
        \* blob.delete() raises NotFound when there is no such blob
        artifact(c) ==
            IF c.pc = "done" \/ ~c.S.firebase_initialized THEN {c}
            ELSE IF blob \notin DOMAIN c.S.bucket
            THEN {Exit([c EXCEPT !.r.ext_writes = @ \cup {"bucket"}], "exception")}
            ELSE {[c EXCEPT !.S.bucket = Remove(@, {blob}),
                            !.r.ext_writes = @ \cup {"bucket"}]}
        records(c) ==
            IF c.pc = "done" THEN {c}
            ELSE IF ~HasRecord(c.S.chapter_metadata, class_level, chapter_id)
            THEN {[Exit(c, "deleted") EXCEPT !.r.success = TRUE]}
            ELSE
              LET local_path ==
                      MetaGet(c.S.chapter_metadata, class_level, chapter_id).local_path
                  m == [c EXCEPT
                          !.S.local_files = Remove(@, {local_path}),
                          !.S.chapter_metadata[chapter_key] = Remove(@, {chapter_id})]
              IN  {[Exit(x, "deleted") EXCEPT !.r.success = TRUE] : x \in save_metadata(m)}
    IN
    UNION {UNION {records(a) : a \in artifact(v)} : v \in vectors(ctx)}

\* DELETE /delete/<class_level>/<chapter_id>
DeleteChapter(class_level, chapter_id) ==
    /\ requests < MaxRequests
    /\ \E x \in delete_chapter(
                   Ctx(St, [NoRequest EXCEPT !.op = "delete_chapter",
                                             !.class_level = class_level,
                                             !.chapter_id = chapter_id], MaxFaults)) :
         /\ Commit(x)
         /\ last' = x.r
         /\ requests' = requests + 1
         /\ returned' = IF HasRecord(x.S.chapter_metadata, class_level, chapter_id)
                        THEN returned
                        ELSE Remove(returned, {<<class_level, chapter_id>>})
         /\ UNCHANGED <<pc, tl, call, result>>

\* an upload in which no external call raises
UploadBetween(class_level, chapter_id, file, force_reupload) ==
    /\ requests < MaxRequests
    /\ \E x \in RunToEnd(Ctx(St, Call(file, class_level, chapter_id, force_reupload), 0)) :
         /\ Commit(x)
         /\ last' = x.r
         /\ requests' = requests + 1
         /\ returned' = IF x.r.record_written
                        THEN Put(returned, <<class_level, chapter_id>>, x.r.chunks_created)
                        ELSE returned
         /\ UNCHANGED <<pc, tl, call, result>>

\* "B" has one chunk, "M" as many as extract_text_chunks returns at most
DeleteFiles == {"B", "M"}

NextDelete ==
    \/ \E file \in DeleteFiles, force_reupload \in BOOLEAN :
          UploadBetween(10, "real_numbers", file, force_reupload)
    \/ DeleteChapter(10, "real_numbers")

SpecDelete == Init /\ [][NextDelete]_vars

(***************************************************************************)
(* Uploads, regenerations and deletions of one chapter, and restarts of    *)
(* the process                                                             *)
(***************************************************************************)
\* the route regenerate_chunks_only: any exception ends it with success False
regenerate_chunks_only(ctx) ==
    LET class_level == ctx.r.class_level
        chapter_id == ctx.r.chapter_id
        chapter_key == ChapterKey(class_level)
        local_path == MetaGet(ctx.S.chapter_metadata, class_level, chapter_id).local_path
        embedded(x, n, content) ==
            UNION {
              IF ~e.ret THEN {Exit(e, "embed_failed")}
              ELSE
                {[Exit(s, "regenerated") EXCEPT !.r.success = TRUE,
                                                !.r.chunks_created = n] :
                   s \in save_metadata(
                           [e EXCEPT !.S.chapter_metadata[chapter_key][chapter_id]
                                         .text_chunks_count = n])}
              : e \in create_embeddings(x, n, content, class_level, chapter_id) }
    IN
    IF ~HasRecord(ctx.S.chapter_metadata, class_level, chapter_id)
    THEN {Exit(ctx, "not_found")}
    ELSE IF local_path \notin DOMAIN ctx.S.local_files
    THEN {Exit(ctx, "no_file")}
    ELSE
      UNION {
        LET content == d.S.local_files[local_path]
            n == ChunkCount(content)
            x == [d EXCEPT !.r.extract_calls = @ + 1, !.r.extracted = n,
                           !.r.extracted_from = content]
        IN  IF n = 0 THEN {Exit(x, "extract_failed")} ELSE embedded(x, n, content)
        : d \in delete_existing_chapter_chunks(ctx, class_level, chapter_id) }

\* POST /regenerate-chunks/<class_level>/<chapter_id>
RegenerateChunks(class_level, chapter_id) ==
    /\ requests < MaxRequests
    /\ \E x \in regenerate_chunks_only(
                   Ctx(St, [NoRequest EXCEPT !.op = "regenerate_chunks_only",
                                             !.class_level = class_level,
                                             !.chapter_id = chapter_id], MaxFaults)) :
         /\ Commit(x)
         /\ last' = x.r
         /\ requests' = requests + 1
         /\ UNCHANGED <<returned, pc, tl, call, result>>

\* the process ends and a new ChapterPDFManager is made: chapter_metadata is
\* what _load_metadata reads, the empty dict when reading raises
Restart ==
    /\ last.op # "restart"
    /\ \/ chapter_metadata' = metadata_file
       \/ MaxFaults > 0 /\ chapter_metadata' = EmptyDict
    /\ last' = [NoRequest EXCEPT !.op = "restart"]
    /\ UNCHANGED <<index, metadata_file, local_files, temp_files, bucket, firestore,
                   firebase_initialized, openai_client, pinecone_client, returned,
                   requests, pc, tl, call, result>>

NextOps ==
    \/ Requests({<<10, "real_numbers">>}, KeyFiles)
    \/ RegenerateChunks(10, "real_numbers")
    \/ DeleteChapter(10, "real_numbers")
    \/ Restart

SpecOps == Init /\ [][NextOps]_vars

(***************************************************************************)
(* Requests served by threads (app.run(threaded=True)): each thread runs   *)
(* one call, a phase at a time; no lock is taken anywhere in the method    *)
(***************************************************************************)
ThreadCtx(t) == [tl[t] EXCEPT !.S = St, !.pc = pc[t]]

\* a request arrives and a thread starts serving it
ThreadStart(t, class_level, chapter_id, file, force_reupload) ==
    /\ pc[t] = "idle"
    /\ pc' = [pc EXCEPT ![t] = "start"]
    /\ tl' = [tl EXCEPT ![t] =
                Ctx(EmptyDict, Call(file, class_level, chapter_id, force_reupload),
                    MaxThreadFaults)]
    /\ UNCHANGED <<index, chapter_metadata, metadata_file, local_files, temp_files,
                   bucket, firestore, firebase_initialized, openai_client,
                   pinecone_client, last, returned, requests, call, result>>

\* the thread runs the next phase of its call
ThreadStep(t) ==
    /\ pc[t] \notin {"idle", "done"}
    /\ \E x \in Step(ThreadCtx(t)) :
         /\ Commit(x)
         /\ pc' = [pc EXCEPT ![t] = x.pc]
         /\ tl' = [tl EXCEPT ![t] = [x EXCEPT !.S = EmptyDict, !.pc = "start"]]
    /\ UNCHANGED <<last, returned, requests, call, result>>

ThreadFiles == {"A", "B"}

NextThreads ==
    \E t \in Threads :
        \/ \E file \in ThreadFiles, force_reupload \in BOOLEAN :
               ThreadStart(t, 10, "real_numbers", file, force_reupload)
        \/ ThreadStep(t)

SpecThreads == Init /\ [][NextThreads]_vars

\* each thread serves the first upload of another chapter of class 10
NextThreadKeys ==
    \E t \in Threads :
        \/ ThreadStart(t, 10, IF t = 1 THEN "real_numbers" ELSE "real_numbers_advanced",
                       "B", FALSE)
        \/ ThreadStep(t)

SpecThreadKeys == Init /\ [][NextThreadKeys]_vars

(***************************************************************************)
(* The text and search functions are applied to arguments drawn from       *)
(* bounded sets; the ingestion service takes no part                       *)
(***************************************************************************)
ServiceIdle ==
    /\ index = EmptyDict /\ chapter_metadata = EmptyDict
    /\ metadata_file = EmptyDict /\ local_files = EmptyDict
    /\ temp_files = EmptyDict /\ bucket = EmptyDict /\ firestore = EmptyDict
    /\ firebase_initialized = FALSE /\ openai_client = FALSE
    /\ pinecone_client = FALSE
    /\ last = NoRequest /\ returned = EmptyDict /\ requests = 0
    /\ pc = [t \in Threads |-> "idle"]
    /\ tl = [t \in Threads |-> Ctx(EmptyDict, NoRequest, 0)]

ServiceUnchanged ==
    UNCHANGED <<index, chapter_metadata, metadata_file, local_files, temp_files,
                bucket, firestore, firebase_initialized, openai_client,
                pinecone_client, last, returned, requests, pc, tl>>

(***************************************************************************)
(* delete_existing_chapter_chunks against a vector store that answers a    *)
(* query with any set of matches, whatever has been deleted: one step per  *)
(* call of the store                                                       *)
(***************************************************************************)
\* the loop never gives up
LoopForever(i) == TRUE

\* for i in range(10)
LoopContinues(i) == i < MaxDeleteBatches

InitLoop ==
    /\ ServiceIdle
    /\ \E has_index \in BOOLEAN :
         call = [op |-> "delete_existing_chapter_chunks", has_index |-> has_index,
                 at |-> "start", i |-> 0, all_ids |-> {}, batch_ids |-> {},
                 queries |-> 0, deletes |-> 0, empty_answers |-> 0]
    /\ result = NoCall

\* return value: True when some id was collected, False after an exception
LoopReturn(value) ==
    /\ result' = [op |-> "delete_existing_chapter_chunks", value |-> value]
    /\ ServiceUnchanged

\* the index test, the head of the for loop and index.query
DeleteLoopQuery ==
    /\ call.op = "delete_existing_chapter_chunks" /\ result = NoCall
    /\ call.at \in {"start", "query"}
    /\ IF ~call.has_index
       THEN call' = [call EXCEPT !.at = "done"] /\ LoopReturn(FALSE)
       ELSE IF ~LoopContinues(call.i)
       THEN call' = [call EXCEPT !.at = "done"] /\ LoopReturn(call.all_ids # {})
       ELSE
         \/ \E matches \in SUBSET {"a", "b", "c"} :
              IF matches = {}
              THEN /\ call' = [call EXCEPT !.at = "done", !.queries = @ + 1,
                                           !.empty_answers = @ + 1]
                   /\ LoopReturn(call.all_ids # {})
              ELSE /\ call' = [call EXCEPT !.at = "delete", !.queries = @ + 1,
                                           !.batch_ids = matches,
                                           !.all_ids = @ \cup matches]
                   /\ UNCHANGED result /\ ServiceUnchanged
         \/ /\ call' = [call EXCEPT !.at = "done", !.queries = @ + 1]
            /\ LoopReturn(FALSE)

\* index.delete(ids=batch_ids)
DeleteLoopDelete ==
    /\ call.op = "delete_existing_chapter_chunks" /\ result = NoCall
    /\ call.at = "delete"
    /\ \/ /\ call' = [call EXCEPT !.at = "query", !.deletes = @ + 1, !.i = @ + 1,
                                  !.batch_ids = {}]
          /\ UNCHANGED result /\ ServiceUnchanged
       \/ /\ call' = [call EXCEPT !.at = "done", !.deletes = @ + 1]
          /\ LoopReturn(FALSE)

NextLoop == DeleteLoopQuery \/ DeleteLoopDelete

\* the thread that serves the request keeps running
SpecLoop == InitLoop /\ [][NextLoop]_vars /\ WF_vars(NextLoop)

(***************************************************************************)
(* RAGPipeline.detect_chapters (rag_pipeline.py).  A text is a sequence of *)
(* pieces: a plain word, a blank, a line feed, or a heading.  The headings *)
(* "adhyay bn" and "path bn" stand for the Bengali words for chapter and   *)
(* lesson followed by a Bengali numeral, "adhyay 6" for the Bengali word   *)
(* followed by an ASCII numeral.  Offsets are counted in characters.       *)
(***************************************************************************)
Tokens ==
    {"x", " ", "LF", "Chapter 1", "CHAPTER 2", "Unit 3", "Lesson 4",
     "adhyay bn", "adhyay 6", "path bn"}

\* len() of a piece
TokenLen(tok) ==
    CASE tok \in {"x", " ", "LF"} -> 1
      [] tok \in {"Chapter 1", "CHAPTER 2", "adhyay bn", "adhyay 6"} -> 9
      [] tok = "Unit 3" -> 6
      [] tok = "Lesson 4" -> 8
      [] tok = "path bn" -> 5

\* bengali_patterns + english_patterns, in this order
all_patterns ==
    <<"adhyay [bn]+", "path [bn]+", "adhyay \\d+", "Chapter \\d+", "CHAPTER \\d+",
      "Unit \\d+", "Lesson \\d+">>

\* re.finditer(pattern, text, re.IGNORECASE) finds the piece: letter case is
\* ignored, and \d matches the Bengali numerals as well as the ASCII ones
PatternFinds(pattern, tok) ==
    CASE pattern = "adhyay [bn]+" -> tok = "adhyay bn"
      [] pattern = "path [bn]+" -> tok = "path bn"
      [] pattern = "adhyay \\d+" -> tok \in {"adhyay bn", "adhyay 6"}
      [] pattern \in {"Chapter \\d+", "CHAPTER \\d+"} -> tok \in {"Chapter 1", "CHAPTER 2"}
      [] pattern = "Unit \\d+" -> tok = "Unit 3"
      [] pattern = "Lesson \\d+" -> tok = "Lesson 4"

\* the offset of piece k of the text; Offset(text, Len(text) + 1) is len(text)
RECURSIVE Offset(_, _)
Offset(text, k) ==
    IF k = 1 THEN 0 ELSE Offset(text, k - 1) + TokenLen(text[k - 1])

\* chapter_matches before the sort: pattern by pattern, each in text order
chapter_matches(text) ==
    LET n == Len(text)
        pairs == [j \in 1..(Len(all_patterns) * n) |->
                    [pattern |-> all_patterns[((j - 1) \div n) + 1],
                     at |-> ((j - 1) % n) + 1]]
        found(pr) == PatternFinds(pr.pattern, text[pr.at])
    IN  [j \in 1..Len(SelectSeq(pairs, found)) |->
           LET pr == SelectSeq(pairs, found)[j]
           IN  [start |-> Offset(text, pr.at),
                end |-> Offset(text, pr.at + 1),
                at |-> pr.at]]

\* the matches are left in the order the patterns found them
Unsorted(matches) == matches

\* chapter_matches.sort(key=lambda x: x['start']): the sort is stable
RECURSIVE SortByStart(_)
SortByStart(matches) ==
    IF matches = <<>> THEN <<>>
    ELSE
      LET m == matches[Len(matches)]
          sorted == SortByStart(SubSeq(matches, 1, Len(matches) - 1))
          notAfter(x) == x.start <= m.start
          after(x) == x.start > m.start
      IN  SelectSeq(sorted, notAfter) \o <<m>> \o SelectSeq(sorted, after)

\* str.strip() of pieces from..to of the text
RECURSIVE Strip(_, _, _)
Strip(text, from, to) ==
    IF from > to THEN <<>>
    ELSE IF text[from] \in {" ", "LF"} THEN Strip(text, from + 1, to)
    ELSE IF text[to] \in {" ", "LF"} THEN Strip(text, from, to - 1)
    ELSE SubSeq(text, from, to)

\* text[max(0, start-50):end+100].split('\n')[0].strip(); the texts here are
\* shorter than 50 characters, so the window is the whole text
FullLine(text) ==
    LET feeds == {k \in 1..Len(text) : text[k] = "LF"}
        stop == IF feeds = {} THEN Len(text)
                ELSE (CHOOSE k \in feeds : \A j \in feeds : k <= j) - 1
    IN  Strip(text, 1, stop)

\* every match gives a segment, also when there is none
detect_chapters_no_fallback(text, subject) ==
    LET matches == SortByStart(chapter_matches(text))
    IN  [i \in 1..Len(matches) |->
           [title |-> FullLine(text), start_pos |-> matches[i].start,
            end_pos |-> Offset(text, Len(text) + 1), content |-> text]]

detect_chapters(text, subject) ==
    LET matches == SortByStart(chapter_matches(text))
    IN  IF matches = <<>>
        THEN <<[title |-> IF subject # None /\ subject # ""
                          THEN <<subject, " - Complete Text">>
                          ELSE <<"Complete Text">>,
                start_pos |-> 0,
                end_pos |-> Offset(text, Len(text) + 1),
                content |-> text]>>
        ELSE [i \in 1..Len(matches) |->
               LET next == IF i + 1 <= Len(matches) THEN matches[i + 1].at
                           ELSE Len(text) + 1
               IN  [title |-> FullLine(text),
                    start_pos |-> matches[i].start,
                    end_pos |-> Offset(text, next),
                    content |-> Strip(text, matches[i].at, next - 1)]]

InitDetect ==
    /\ ServiceIdle
    /\ \E n \in 0..MaxTokens : \E text \in [1..n -> Tokens] :
         \E subject \in {None, "", "Math"} :
            call = [op |-> "detect_chapters", text |-> text, subject |-> subject]
    /\ result = NoCall

DetectChapters ==
    /\ call.op = "detect_chapters" /\ result = NoCall
    /\ result' = [op |-> "detect_chapters",
                  chapters |-> detect_chapters(call.text, call.subject)]
    /\ UNCHANGED call
    /\ ServiceUnchanged

NextDetect == DetectChapters

SpecDetect == InitDetect /\ [][NextDetect]_vars

(***************************************************************************)
(* RAGPipeline.chunk_text (rag_pipeline.py).  A text is the sequence of    *)
(* its sentences as sent_tokenize returns them, a sentence is given by its *)
(* number of words, a chunk is the sequence of the positions of the        *)
(* sentences joined into it.                                               *)
(***************************************************************************)
Texts == UNION {[1..n -> 1..MaxSentenceWords] : n \in 0..MaxSentences}

\* len(chunk.split())
RECURSIVE WordCount(_, _)
WordCount(chunk, text) ==
    IF chunk = <<>> THEN 0
    ELSE text[Head(chunk)] + WordCount(Tail(chunk), text)

\* the end of chunk_text: the last buffer is added when it reaches the
\* minimum size, joined to the last chunk when there is one
ChunkTail(chunks, current_chunk, text, min_chunk_size) ==
    IF current_chunk # <<>> /\ WordCount(current_chunk, text) >= min_chunk_size
    THEN Append(chunks, current_chunk)
    ELSE IF current_chunk # <<>> /\ chunks # <<>>
    THEN [chunks EXCEPT ![Len(chunks)] = @ \o current_chunk]
    ELSE chunks

\* the for loop of chunk_text from sentence i on
RECURSIVE ChunkLoop(_, _, _, _, _, _)
ChunkLoop(chunks, current_chunk, i, text, min_chunk_size, max_chunk_size) ==
    IF i > Len(text) THEN ChunkTail(chunks, current_chunk, text, min_chunk_size)
    ELSE
      LET potential_chunk == Append(current_chunk, i)
          word_count == WordCount(potential_chunk, text)
      IN
      IF word_count <= max_chunk_size
      THEN ChunkLoop(chunks, potential_chunk, i + 1, text, min_chunk_size, max_chunk_size)
      ELSE IF WordCount(current_chunk, text) >= min_chunk_size
      THEN ChunkLoop(Append(chunks, current_chunk), <<i>>, i + 1, text,
                     min_chunk_size, max_chunk_size)
      \* word_count > max_chunk_size * 1.5
      ELSE IF 2 * word_count > 3 * max_chunk_size
      THEN ChunkLoop(Append(chunks, potential_chunk), <<>>, i + 1, text,
                     min_chunk_size, max_chunk_size)
      ELSE ChunkLoop(chunks, potential_chunk, i + 1, text, min_chunk_size, max_chunk_size)

chunk_text(text, min_chunk_size, max_chunk_size) ==
    ChunkLoop(<<>>, <<>>, 1, text, min_chunk_size, max_chunk_size)

InitChunk ==
    /\ ServiceIdle
    /\ \E text \in Texts, max_chunk_size \in 1..MaxChunkSize :
         \E min_chunk_size \in 0..max_chunk_size :
            call = [op |-> "chunk_text", text |-> text,
                    min_chunk_size |-> min_chunk_size,
                    max_chunk_size |-> max_chunk_size]
    /\ result = NoCall

ChunkTextCall ==
    /\ call.op = "chunk_text" /\ result = NoCall
    /\ result' = [op |-> "chunk_text",
                  chunks |-> chunk_text(call.text, call.min_chunk_size,
                                        call.max_chunk_size)]
    /\ UNCHANGED call
    /\ ServiceUnchanged

NextChunk == ChunkTextCall

SpecChunk == InitChunk /\ [][NextChunk]_vars

(***************************************************************************)
(* Text extraction: ChapterPDFManager.extract_text_chunks and              *)
(* RAGPipeline.extract_text_from_pdf.  A document has page_count pages;    *)
(* the pages in blank carry no text, every other page carries              *)
(* words_per_page words of word_len characters.  A word is the pair (page, *)
(* position on the page), a page text and a chunk are sequences of words.  *)
(***************************************************************************)
PageCap == 50
chunk_size == 800
OverlapWords == 5
MinChunkChars == 50
BreakAtChunks == 100

Docs ==
    [page_count : {0, 1, PageCap - 1} \cup (PageCap..(PageCap + MaxExtraPages)),
     blank : {{}, {1}, {PageCap}},
     words_per_page : 1..MaxWordsPerPage,
     word_len : {10, 60, 500}]

\* page.get_text() as a list of words
PageText(doc, page_num) ==
    IF page_num \in doc.blank THEN <<>>
    ELSE [k \in 1..doc.words_per_page |-> <<page_num, k>>]

\* the texts of pages `from`..`to` that are not empty, in page order
RECURSIVE PageTexts(_, _, _)
PageTexts(doc, from, to) ==
    IF from > to THEN <<>>
    ELSE IF PageText(doc, from) = <<>> THEN PageTexts(doc, from + 1, to)
    ELSE <<PageText(doc, from)>> \o PageTexts(doc, from + 1, to)

\* len(" ".join(chunk)) for n words of the document
JoinedLen(doc, n) == IF n = 0 THEN 0 ELSE n * doc.word_len + (n - 1)

\* the chunk is kept when its text has more than 50 characters
KeepChunk(doc, chunks, chunk) ==
    IF JoinedLen(doc, Len(chunk)) > MinChunkChars THEN Append(chunks, chunk) ELSE chunks

\* the locals of the word loop: current_chunk, current_length, chunks, and
\* whether the loop was left by the break
LoopState(current_chunk, current_length, chunks, left) ==
    [current_chunk |-> current_chunk, current_length |-> current_length,
     chunks |-> chunks, left |-> left]

\* one pass through the body of the word loop of extract_text_chunks; the
\* loop is left once break_at chunks are kept
WordStep(doc, st, word, break_at) ==
    LET split == st.current_length + doc.word_len > chunk_size /\ st.current_chunk # <<>>
        n == Len(st.current_chunk)
        overlap_words ==
            IF n > OverlapWords THEN SubSeq(st.current_chunk, n - OverlapWords + 1, n)
            ELSE <<>>
        chunks == IF split THEN KeepChunk(doc, st.chunks, st.current_chunk) ELSE st.chunks
        current_chunk == IF split THEN Append(overlap_words, word)
                         ELSE Append(st.current_chunk, word)
        current_length == IF split THEN Len(current_chunk) * doc.word_len
                          ELSE st.current_length + doc.word_len + 1
    IN  LoopState(current_chunk, current_length, chunks, Len(chunks) >= break_at)

\* the loop over the words of one page text
RECURSIVE PageWords(_, _, _, _, _)
PageWords(doc, text, k, st, break_at) ==
    IF k > Len(text) \/ st.left THEN st
    ELSE PageWords(doc, text, k + 1, WordStep(doc, st, text[k], break_at), break_at)

\* the loop over the words of the page texts from page text p on
RECURSIVE WordLoop(_, _, _, _, _)
WordLoop(doc, text_pages, p, st, break_at) ==
    IF p > Len(text_pages) \/ st.left THEN st
    ELSE WordLoop(doc, text_pages, p + 1,
                  PageWords(doc, text_pages[p], 1, st, break_at), break_at)

\* the chunks after the loop and the final chunk
AllChunks(doc, text_pages, break_at) ==
    LET st == WordLoop(doc, text_pages, 1, LoopState(<<>>, 0, <<>>, FALSE), break_at)
    IN  IF st.current_chunk # <<>> THEN KeepChunk(doc, st.chunks, st.current_chunk)
        ELSE st.chunks

\* the first n elements of a list: seq[:n]
Prefix(seq, n) == IF Len(seq) <= n THEN seq ELSE SubSeq(seq, 1, n)

RECURSIVE Concat(_)
Concat(seqs) == IF seqs = <<>> THEN <<>> ELSE Head(seqs) \o Concat(Tail(seqs))

\* what an extraction reports: the page texts it read and what it returns
Extracted(text_pages, chunks) == [text_pages |-> text_pages, chunks |-> chunks]

\* the chunks are returned without the final slice
extract_text_chunks_unsliced(doc) ==
    LET text_pages ==
            PageTexts(doc, 1, IF doc.page_count < PageCap THEN doc.page_count ELSE PageCap)
    IN  Extracted(text_pages,
                  AllChunks(doc, text_pages, BreakAtChunks))

extract_text_chunks(doc) ==
    LET text_pages ==
            PageTexts(doc, 1, IF doc.page_count < PageCap THEN doc.page_count ELSE PageCap)
        chunks == AllChunks(doc, text_pages, BreakAtChunks)
    IN  Extracted(text_pages, Prefix(chunks, ChunkCap))

\* extract_text_from_pdf: page_info holds every page with text; the chunks
\* field is the full text, which process_textbook chunks
extract_text_from_pdf(doc) ==
    LET page_info == PageTexts(doc, 1, doc.page_count)
    IN  Extracted(page_info, <<Concat(page_info)>>)

InitExtract ==
    /\ ServiceIdle
    /\ result = NoCall
    /\ \E op \in {"extract_text_chunks", "extract_text_from_pdf"}, doc \in Docs :
         call = [op |-> op, doc |-> doc]

ExtractTextChunks ==
    /\ call.op = "extract_text_chunks" /\ result = NoCall
    /\ result' = [op |-> call.op, out |-> extract_text_chunks(call.doc)]
    /\ UNCHANGED call
    /\ ServiceUnchanged

ExtractTextFromPdf ==
    /\ call.op = "extract_text_from_pdf" /\ result = NoCall
    /\ result' = [op |-> call.op, out |-> extract_text_from_pdf(call.doc)]
    /\ UNCHANGED call
    /\ ServiceUnchanged

NextExtract == ExtractTextChunks \/ ExtractTextFromPdf

SpecExtract == InitExtract /\ [][NextExtract]_vars

(***************************************************************************)
(* RAGPipeline.process_textbook and store_chunks_in_pinecone, called by    *)
(* upload_textbook (rag_api_server.py).  The text of a book is a sequence  *)
(* of pieces as for detect_chapters; every piece that is not blank is one  *)
(* sentence, a plain piece of 400 words and a heading of 2.                *)
(***************************************************************************)
\* sent_tokenize(content) with len(sentence.split()) of each sentence
Sentences(content) ==
    LET notBlank(tok) == tok \notin {" ", "LF"}
        kept == SelectSeq(content, notBlank)
    IN  [i \in 1..Len(kept) |-> IF kept[i] = "x" THEN 400 ELSE 2]

\* f"{class_level}-{subject.lower()}-{chapter_idx+1}-{chunk_idx+1:03d}", with
\* chapter_number = chapter_idx + 1 and chunk_number = chunk_idx + 1
TextbookChunkId(class_level, subject, chapter_number, chunk_number) ==
    class_level \o "-" \o (IF subject = "Math" THEN "math" ELSE subject) \o "-"
      \o ToString(chapter_number) \o "-"
      \o (IF chunk_number < 10 THEN "00" ELSE IF chunk_number < 100 THEN "0" ELSE "")
      \o ToString(chunk_number)

\* the chunks of the book, as the sequence of [chunk_id, chapter, text]
process_textbook(full_text, class_level, subject, chapter_name) ==
    LET chapters ==
            IF chapter_name # None /\ chapter_name # ""
            THEN <<[title |-> <<chapter_name>>, start_pos |-> 0,
                    end_pos |-> Offset(full_text, Len(full_text) + 1),
                    content |-> full_text]>>
            ELSE detect_chapters(full_text, subject)
        chunks(c) == chunk_text(Sentences(chapters[c].content), 300, 800)
        of(c) == [j \in 1..Len(chunks(c)) |->
                    [chunk_id |-> TextbookChunkId(class_level, subject, c, j),
                     chapter |-> chapters[c].title,
                     chapter_number |-> c,
                     text |-> [w \in 1..Len(chunks(c)[j]) |->
                                 chapters[c].content[chunks(c)[j][w]]]]]
    IN  Concat([c \in 1..Len(chapters) |-> of(c)])

\* index.upsert of every chunk under its chunk_id; True
store_chunks_in_pinecone(store, chunks) ==
    LET ids == {chunks[j].chunk_id : j \in 1..Len(chunks)}
        \* the last chunk with the id is the one kept
        at(id) == CHOOSE j \in 1..Len(chunks) :
                    /\ chunks[j].chunk_id = id
                    /\ \A k \in 1..Len(chunks) : chunks[k].chunk_id = id => k <= j
    IN  PutAll(store, [id \in ids |-> [chapter |-> chunks[at(id)].chapter,
                                       chapter_number |-> chunks[at(id)].chapter_number,
                                       text |-> chunks[at(id)].text]])

InitTextbook ==
    /\ ServiceIdle
    /\ call = [op |-> "upload_textbook", store |-> EmptyDict, uploads |-> 0]
    /\ result = NoCall

\* POST /upload-textbook; class_level and subject are required
UploadTextbook ==
    /\ call.op = "upload_textbook" /\ call.uploads < MaxUploads
    /\ \E n \in 1..MaxTokens : \E full_text \in [1..n -> {"x", "Chapter 1", "Unit 3"}] :
         \E subject \in {"Math", "math"}, chapter_name \in {None, "", "Sets", "Algebra"} :
            LET chunks == process_textbook(full_text, "9", subject, chapter_name)
                ids == {chunks[j].chunk_id : j \in 1..Len(chunks)}
                replaced == ids \cap DOMAIN call.store
            IN  /\ \/ /\ call' = [call EXCEPT
                                     !.store = store_chunks_in_pinecone(@, chunks),
                                     !.uploads = @ + 1]
                      /\ result' = [op |-> "upload_textbook", chapter_name |-> chapter_name,
                                    chunks_count |-> Len(chunks), pinecone_stored |-> TRUE,
                                    replaced |-> [id \in replaced |-> call.store[id].chapter]]
                   \* the upsert raises
                   \/ /\ call' = [call EXCEPT !.uploads = @ + 1]
                      /\ result' = [op |-> "upload_textbook", chapter_name |-> chapter_name,
                                    chunks_count |-> Len(chunks), pinecone_stored |-> FALSE,
                                    replaced |-> EmptyDict]
                /\ ServiceUnchanged

SpecTextbook == InitTextbook /\ [][UploadTextbook]_vars

(***************************************************************************)
(* Search and answer: RAGPipeline.search_relevant_chunks and               *)
(* generate_rag_response (rag_pipeline.py, index "nctb-textbooks") and     *)
(* ChapterPDFManager.search_chapter_content (index "nctb-math-chapters").  *)
(* A store is the sequence of its vectors in the order the similarity      *)
(* ranking gives them for the query at hand; scores are in hundredths.     *)
(* Class levels are written as strings here.                               *)
(***************************************************************************)
DefaultTopK == 5

RagVectors ==
    << [id |-> "10-physics-1-001", score |-> 90,
        metadata |-> [class_level |-> "10", subject |-> "Physics", chapter |-> "Motion",
                      text |-> "t1", page_number |-> 1, word_count |-> 300]],
       [id |-> "10-physics-2-001", score |-> 80,
        metadata |-> [class_level |-> "10", subject |-> "Physics", chapter |-> "Force",
                      text |-> "t2", page_number |-> 7, word_count |-> 420]],
       [id |-> "9-physics-1-001", score |-> 70,
        metadata |-> [class_level |-> "9", subject |-> "Physics", chapter |-> "Motion",
                      text |-> "t3", page_number |-> 2, word_count |-> 310]] >>

ChapterVectors ==
    << [id |-> "10_real_numbers_chunk_0", score |-> 90,
        metadata |-> [class_level |-> "10", chapter_id |-> "real_numbers",
                      chapter_name |-> "Real Numbers", bengali_name |-> "bn1",
                      chunk_index |-> 0, text |-> "t1"]],
       [id |-> "10_real_numbers_chunk_1", score |-> 80,
        metadata |-> [class_level |-> "10", chapter_id |-> "real_numbers",
                      chapter_name |-> "Real Numbers", bengali_name |-> "bn1",
                      chunk_index |-> 1, text |-> "t2"]],
       [id |-> "9_sets_chunk_0", score |-> 70,
        metadata |-> [class_level |-> "9", chapter_id |-> "sets",
                      chapter_name |-> "Sets", bengali_name |-> "bn2",
                      chunk_index |-> 0, text |-> "t3"]] >>

\* the vectors of seq whose id is in ids, in the order of seq
RECURSIVE SelectInOrder(_, _)
SelectInOrder(seq, ids) ==
    IF seq = <<>> THEN <<>>
    ELSE IF Head(seq).id \in ids THEN <<Head(seq)>> \o SelectInOrder(Tail(seq), ids)
    ELSE SelectInOrder(Tail(seq), ids)

\* the stores that hold some of the vectors
Stores(vectors) ==
    {SelectInOrder(vectors, ids) :
        ids \in SUBSET {vectors[i].id : i \in 1..Len(vectors)}}

\* Python truth value of an argument that is None or a string
Truthy(v) == v # None /\ v # ""

\* the vector's metadata passes the filter: every filtered field is there
\* with the value asked for
PassesFilter(metadata, filter) ==
    \A k \in DOMAIN filter : k \in DOMAIN metadata /\ metadata[k] = filter[k]

\* index.query(vector, top_k, include_metadata, filter): the top_k best
\* ranked vectors that pass the filter
StoreQuery(store, top_k, filter) ==
    LET m == SelectInOrder(store, {store[i].id : i \in
                    {j \in 1..Len(store) : PassesFilter(store[j].metadata, filter)}})
    IN  IF Len(m) <= top_k THEN m ELSE SubSeq(m, 1, top_k)

\* the filter that keeps the class level alone
RagFilterClassOnly(class_level, subject, chapter) ==
    [k \in {"class_level"} |-> class_level]

\* filter_dict of search_relevant_chunks
RagFilter(class_level, subject, chapter) ==
    LET keys == {"class_level"} \cup (IF Truthy(subject) THEN {"subject"} ELSE {})
                                 \cup (IF Truthy(chapter) THEN {"chapter"} ELSE {})
    IN  [k \in keys |-> CASE k = "class_level" -> class_level
                           [] k = "subject" -> subject
                           [] k = "chapter" -> chapter]

\* chunk_info built from a match
ChunkInfo(match) ==
    [chunk_id |-> match.id, score |-> match.score, text |-> match.metadata.text,
     class_level |-> match.metadata.class_level, subject |-> match.metadata.subject,
     chapter |-> match.metadata.chapter, page_number |-> match.metadata.page_number,
     word_count |-> match.metadata.word_count]

\* what a search reports: the filter it passed (when it got as far as the
\* query), the matches the store returned, the list it returns
SearchOutcome(queried, filter, matches, results) ==
    [queried |-> queried, filter |-> filter, matches |-> matches, results |-> results]

\* c.embed_raises: generate_embedding raises; c.query_raises: index.query raises
search_relevant_chunks(c, class_level, subject, chapter, top_k) ==
    IF c.embed_raises THEN SearchOutcome(FALSE, EmptyDict, <<>>, <<>>)
    ELSE
      LET filter_dict == RagFilter(class_level, subject, chapter) IN
      IF c.query_raises THEN SearchOutcome(TRUE, filter_dict, <<>>, <<>>)
      ELSE
        LET matches == StoreQuery(c.store, top_k, filter_dict) IN
        SearchOutcome(TRUE, filter_dict, matches,
                      [i \in 1..Len(matches) |-> ChunkInfo(matches[i])])

\* the mean of the scores of the chunks used, as (sum, count); 0.0 is (0, 1)
MeanScore(chunks) ==
    [sum |-> IF chunks = <<>> THEN 0
             ELSE LET RECURSIVE Sum(_)
                      Sum(q) == IF q = <<>> THEN 0 ELSE Head(q).score + Sum(Tail(q))
                  IN  Sum(chunks),
     count |-> IF chunks = <<>> THEN 1 ELSE Len(chunks)]

\* the three kinds of answer: the fixed "not covered in your Class {class_level}
\* {subject} book" text, the fixed error text, the text the model generated
Answer(kind, class_level, subject) ==
    [kind |-> kind, class_level |-> class_level, subject |-> subject]

Response(answer, source_chunks, generation_requests, search) ==
    [answer |-> answer, source_chunks |-> source_chunks,
     confidence |-> MeanScore(source_chunks),
     generation_requests |-> generation_requests, raised |-> FALSE,
     search |-> search]

\* the test for an empty search result dropped: with no chunk the request is
\* sent and the mean of no score raises, which the except clause answers
generate_rag_response_unchecked(c) ==
    LET relevant_chunks ==
            search_relevant_chunks(c, c.class_level, c.subject, c.chapter, DefaultTopK)
    IN
    IF c.generation_raises \/ relevant_chunks.results = <<>>
    THEN Response(Answer("error", None, None), <<>>, 1, relevant_chunks)
    ELSE Response(Answer("generated", c.class_level, c.subject),
                  relevant_chunks.results, 1, relevant_chunks)

\* c.generation_raises: client.chat.completions.create raises
generate_rag_response(c) ==
    LET relevant_chunks ==
            search_relevant_chunks(c, c.class_level, c.subject, c.chapter, DefaultTopK)
    IN
    IF relevant_chunks.results = <<>>
    THEN Response(Answer("not_covered", c.class_level, c.subject), <<>>, 0,
                  relevant_chunks)
    ELSE IF c.generation_raises
    THEN Response(Answer("error", None, None), <<>>, 1, relevant_chunks)
    ELSE Response(Answer("generated", c.class_level, c.subject),
                  relevant_chunks.results, 1, relevant_chunks)

\* filter_dict of search_chapter_content; an empty one is passed as None,
\* which filters nothing
ChapterFilter(class_level, chapter_id) ==
    LET keys == (IF Truthy(class_level) THEN {"class_level"} ELSE {})
                \cup (IF Truthy(chapter_id) THEN {"chapter_id"} ELSE {})
    IN  [k \in keys |-> IF k = "class_level" THEN class_level ELSE chapter_id]

\* a result of search_chapter_content built from a match
ChapterResult(match) ==
    [score |-> match.score, text |-> match.metadata.text,
     class_level |-> match.metadata.class_level,
     chapter_id |-> match.metadata.chapter_id,
     chapter_name |-> match.metadata.chapter_name,
     bengali_name |-> match.metadata.bengali_name]

search_chapter_content(c, class_level, chapter_id, top_k) ==
    IF ~c.openai_client \/ ~c.pinecone_client \/ c.embed_raises
    THEN SearchOutcome(FALSE, EmptyDict, <<>>, <<>>)
    ELSE
      LET filter_dict == ChapterFilter(class_level, chapter_id) IN
      IF c.query_raises THEN SearchOutcome(TRUE, filter_dict, <<>>, <<>>)
      ELSE
        LET matches == StoreQuery(c.store, top_k, filter_dict) IN
        SearchOutcome(TRUE, filter_dict, matches,
                      [i \in 1..Len(matches) |-> ChapterResult(matches[i])])

\* scope arguments: absent, empty, or a value
SearchArgs ==
    [class_level |-> {None, "", "9", "10"},
     subject |-> {None, "", "Physics"},
     chapter |-> {None, "", "Motion"},
     chapter_id |-> {None, "", "real_numbers"},
     top_k |-> {1, DefaultTopK}]

SearchCall(op, class_level, subject, chapter, top_k, store, raises, clients) ==
    [op |-> op, class_level |-> class_level, subject |-> subject, chapter |-> chapter,
     top_k |-> top_k, store |-> store,
     embed_raises |-> raises[1], query_raises |-> raises[2],
     generation_raises |-> raises[3],
     openai_client |-> clients[1], pinecone_client |-> clients[2]]

InitSearch ==
    /\ ServiceIdle
    /\ result = NoCall
    /\ \/ \E op \in {"search_relevant_chunks", "generate_rag_response"},
             class_level \in SearchArgs.class_level, subject \in SearchArgs.subject,
             chapter \in SearchArgs.chapter,
             top_k \in SearchArgs.top_k, store \in Stores(RagVectors),
             raises \in BOOLEAN \X BOOLEAN \X BOOLEAN :
               /\ op = "generate_rag_response" => top_k = DefaultTopK
               /\ op = "search_relevant_chunks" => ~raises[3]
               /\ call = SearchCall(op, class_level, subject, chapter, top_k, store,
                                    raises, <<TRUE, TRUE>>)
       \/ \E class_level \in SearchArgs.class_level, chapter_id \in SearchArgs.chapter_id,
             top_k \in SearchArgs.top_k, store \in Stores(ChapterVectors),
             raises \in BOOLEAN \X BOOLEAN \X {FALSE},
             clients \in BOOLEAN \X BOOLEAN :
               call = SearchCall("search_chapter_content", class_level, None,
                                 chapter_id, top_k, store, raises, clients)

SearchRelevantChunks ==
    /\ call.op = "search_relevant_chunks" /\ result = NoCall
    /\ result' = [op |-> call.op,
                  out |-> search_relevant_chunks(call, call.class_level, call.subject,
                                                 call.chapter, call.top_k)]
    /\ UNCHANGED call
    /\ ServiceUnchanged

SearchChapterContent ==
    /\ call.op = "search_chapter_content" /\ result = NoCall
    /\ result' = [op |-> call.op,
                  out |-> search_chapter_content(call, call.class_level, call.chapter,
                                                 call.top_k)]
    /\ UNCHANGED call
    /\ ServiceUnchanged

GenerateRagResponse ==
    /\ call.op = "generate_rag_response" /\ result = NoCall
    /\ result' = [op |-> call.op, response |-> generate_rag_response(call)]
    /\ UNCHANGED call
    /\ ServiceUnchanged

NextSearch == SearchRelevantChunks \/ SearchChapterContent \/ GenerateRagResponse

SpecSearch == InitSearch /\ [][NextSearch]_vars

(***************************************************************************)
(* Properties                                                              *)
(***************************************************************************)
\* the last request was an upload that got as far as comparing fingerprints
Compared == last.op = "upload" /\ last.new_hash # None

LastKeyVectors == Matches(index, last.class_level, last.chapter_id)

LastRecord == MetaGet(chapter_metadata, last.class_level, last.chapter_id)

C2_ReplacementComplete ==
    (Compared /\ last.force /\ last.exit = "processed"
     /\ last.existing_hash # None /\ last.existing_hash # last.new_hash)
    => \A id \in LastKeyVectors : index[id].text[1] = last.file

\* both threads have served a forced upload of the same chapter, with
\* different files, and both calls returned success
BothForcedDone ==
    /\ \A t \in Threads : pc[t] = "done" /\ tl[t].r.force /\ tl[t].r.exit = "processed"
    /\ \A t, u \in Threads :
         /\ tl[t].r.class_level = tl[u].r.class_level
         /\ tl[t].r.chapter_id = tl[u].r.chapter_id
         /\ (t # u => tl[t].r.file # tl[u].r.file)

\* C3 (as claimed): after two concurrent forced uploads of one chapter the
\* vectors stored for it all carry text of one of the two files, and the
\* record's fingerprint and chunk count are those of that file.
C3_ForcedUploadsSerialized ==
    BothForcedDone =>
      \E t \in Threads :
        LET f == tl[t].r.file
            class_level == tl[t].r.class_level
            chapter_id == tl[t].r.chapter_id
            rec == MetaGet(chapter_metadata, class_level, chapter_id)
        IN
        /\ \A id \in Matches(index, class_level, chapter_id) : index[id].text[1] = f
        /\ rec.file_hash = FileHash(f)
        /\ rec.text_chunks_count = ChunkCount(f)

\* C4 (as claimed): an upload, not forced, for a key whose record holds
\* another fingerprint fails asking for confirmation, deletes and writes no
\* vector and writes no record.
C4_ConfirmationRequired ==
    (Compared /\ ~last.force
     /\ last.existing_hash # None /\ last.existing_hash # last.new_hash)
    => /\ ~last.success /\ last.requires_confirmation
       /\ last.delete_calls = 0 /\ last.upsert_calls = 0
       /\ ~last.record_written

\* the step is an upload, not forced, of the recorded file while the record
\* has no artifact reference
IncompleteSkipStep ==
    /\ last'.op = "upload" /\ last'.new_hash # None /\ ~last'.force
    /\ last'.existing_hash = last'.new_hash
    /\ last'.existing_url = None

NoReprocessing ==
    /\ last'.extract_calls = 0 /\ last'.embed_calls = 0
    /\ last'.query_calls = 0 /\ last'.delete_calls = 0 /\ last'.upsert_calls = 0
    /\ index' = index
    /\ MetaGet(chapter_metadata', last'.class_level, last'.chapter_id).file_hash
         = MetaGet(chapter_metadata, last'.class_level, last'.chapter_id).file_hash
    /\ MetaGet(chapter_metadata', last'.class_level, last'.chapter_id).text_chunks_count
         = MetaGet(chapter_metadata, last'.class_level, last'.chapter_id).text_chunks_count

C6_RecordAfterAllUpserts ==
    last.record_written => last.upsert_failures = 0

\* C7 (as claimed): when delete_existing_chapter_chunks reports failure and
\* vectors of the key are still stored, the upload fails and upserts nothing.
C7_DeleteFailureAborts ==
    (last.op = "upload" /\ last.delete_result = "False" /\ last.after_delete # {})
    => (~last.success /\ last.upsert_calls = 0)

\* C8 (as claimed): an upload that fails at extraction returns failure and
\* leaves the index, the stored chapter files and the records as they were.
C8_ExtractionFailureWritesNothing ==
    [][last'.exit = "extract_failed" =>
         /\ ~last'.success
         /\ index' = index
         /\ local_files' = local_files
         /\ chapter_metadata' = chapter_metadata]_vars

\* C9 (as claimed): when the embedding call fails for every chunk, the
\* upload fails, upserts nothing and writes no record.
C9_TotalEmbeddingFailureAborts ==
    (last.op = "upload" /\ last.embed_calls > 0
     /\ last.embed_calls = last.extracted /\ last.embed_failures = last.embed_calls)
    => (~last.success /\ last.upsert_calls = 0 /\ ~last.record_written)

\* C10 (as claimed): when the embedding call fails for some chunks only and
\* the upload succeeds, chunks_created and the recorded text_chunks_count
\* are the number of vectors upserted.
C10_ReducedCountReported ==
    (last.exit = "processed"
     /\ last.embed_failures > 0 /\ last.embed_failures < last.extracted)
    => /\ last.chunks_created = Cardinality(last.upserted)
       /\ LastRecord.text_chunks_count = Cardinality(last.upserted)

\* the last upload extracted, embedded and upserted every chunk of its file
\* and its publication to object storage did not succeed (it failed or the
\* storage is not initialised)
ProcessedNotPublished ==
    /\ last.op = "upload" /\ last.extracted > 0
    /\ last.embed_failures = 0 /\ last.upsert_failures = 0
    /\ Cardinality(last.upserted) = last.extracted
    /\ last.firebase_url = None

\* C11: an upload whose chunks were all embedded and upserted and whose
\* publication did not succeed returns success with the chunk count, writes
\* the record with the new fingerprint and no artifact URL, and reports
\* student_download_ready = false and firebase_status =
\* 'local_only_no_student_access'; a fully successful upload reports
\* 'uploaded_for_students' and every failed upload reports success = false
\* and no firebase_status.
C11_PublishFailureIsSubState ==
    /\ ProcessedNotPublished =>
         /\ last.success /\ last.chunks_created = last.extracted
         /\ last.record_written
         /\ LastRecord.file_hash = last.new_hash
         /\ LastRecord.firebase_url = None
         /\ ~last.student_download_ready
         /\ last.firebase_status = "local_only_no_student_access"
    /\ (last.exit = "processed" /\ last.firebase_url # None) =>
         /\ last.student_download_ready
         /\ last.firebase_status = "uploaded_for_students"
    /\ (last.op = "upload" /\ ~last.success) =>
         /\ last.firebase_status = None /\ ~last.student_download_ready

C11_Witness ==
    /\ ProcessedNotPublished /\ firebase_initialized /\ last.publish_attempts > 0
    /\ last.exit = "processed" /\ "bucket" \in last.ext_writes
    /\ LastRecord.file_hash = FileHash(last.file)
\* the key is not a chapter of the class: an unknown id, an 'advanced'
\* chapter for class 9, or a class level other than 9 and 10
InvalidKey(class_level, chapter_id) ==
    \/ class_level \notin {9, 10}
    \/ chapter_id \notin NCTB_CHAPTERS
    \/ (class_level = 9 /\ IsAdvanced(chapter_id))

\* C12: an upload with a chapter id that is not valid for the class level
\* returns success = false, saves no file, computes no fingerprint, calls
\* neither the vector store nor the embedding service nor the extractor,
\* and leaves the index, the files, the records and the mirrors as they were.
C12_ValidationBeforeIO ==
    [][(requests' = requests + 1 /\ last'.op = "upload"
        /\ InvalidKey(last'.class_level, last'.chapter_id))
       => /\ ~last'.success
          /\ temp_files' = temp_files /\ local_files' = local_files
          /\ last'.hash_calls = 0 /\ last'.new_hash = None
          /\ last'.query_calls = 0 /\ last'.delete_calls = 0
          /\ last'.upsert_calls = 0 /\ last'.embed_calls = 0
          /\ last'.extract_calls = 0 /\ last'.publish_attempts = 0
          /\ index' = index
          /\ chapter_metadata' = chapter_metadata /\ metadata_file' = metadata_file
          /\ bucket' = bucket /\ firestore' = firestore]_vars

C12_Witness ==
    /\ last.op = "upload" /\ last.exit = "invalid_chapter"
    /\ last.class_level = 9 /\ IsAdvanced(last.chapter_id)
    /\ HasRecord(chapter_metadata, 10, "real_numbers_advanced")
    /\ temp_files = EmptyDict
\* the records of the keys other than (class_level, chapter_id) are the same
\* in the two dictionaries
OtherRecordsSame(md1, md2, class_level, chapter_id) ==
    \A k \in InputKeys :
        k # <<class_level, chapter_id>> =>
            /\ HasRecord(md1, k[1], k[2]) <=> HasRecord(md2, k[1], k[2])
            /\ MetaGet(md1, k[1], k[2]) = MetaGet(md2, k[1], k[2])

\* every record is stored under the key its file name is derived from
RecordsUnderOwnKey(md) ==
    \A ck \in DOMAIN md : \A ch \in DOMAIN md[ck] :
        \E k \in InputKeys :
            /\ ck = ChapterKey(k[1]) /\ ch = k[2]
            /\ md[ck][ch].filename = Filename(k[1], k[2])

\* C20: the records form a dictionary keyed by (class, chapter), each
\* record under its own key; an upload that returns success = false leaves
\* every record as it was, and an upload that succeeds or is skipped leaves
\* the records of all other keys as they were.
C20_RecordFrame ==
    [][(requests' = requests + 1 /\ last'.op = "upload")
       => /\ RecordsUnderOwnKey(chapter_metadata')
          /\ (~last'.success => chapter_metadata' = chapter_metadata)
          /\ (last'.success =>
                OtherRecordsSame(chapter_metadata, chapter_metadata',
                                 last'.class_level, last'.chapter_id))]_vars

\* a successful upload for one key while another key of the class has a
\* record, and that record is still there
C20_Witness ==
    /\ last.exit = "processed" /\ last.chapter_id = "real_numbers"
    /\ last.class_level = 10
    /\ HasRecord(chapter_metadata, 10, "real_numbers")
    /\ HasRecord(chapter_metadata, 10, "real_numbers_advanced")
\* the sentences of the chunks, in the order of the chunks
RECURSIVE Flatten(_)
Flatten(chunks) == IF chunks = <<>> THEN <<>> ELSE Head(chunks) \o Flatten(Tail(chunks))

\* C13 (as claimed): every chunk chunk_text returns but the last has between
\* min_chunk_size and max_chunk_size words, and the last has at least
\* min_chunk_size words unless it is the only one.
C13_ChunkSizeInvariant ==
    result.op = "chunk_text" =>
      LET n == Len(result.chunks)
          words(i) == WordCount(result.chunks[i], call.text)
      IN
      \A i \in 1..n :
         /\ i < n => /\ call.min_chunk_size <= words(i)
                     /\ words(i) <= call.max_chunk_size
         /\ (i = n /\ n > 1) => call.min_chunk_size <= words(i)

\* C14 (as claimed): every sentence of a non-empty text is in the chunks
\* chunk_text returns, in order, and a non-empty text of fewer than
\* min_chunk_size words comes back as exactly one chunk.
C14_TrailingBufferKept ==
    (result.op = "chunk_text" /\ call.text # <<>>) =>
      /\ Flatten(result.chunks) = [i \in 1..Len(call.text) |-> i]
      /\ WordCount([i \in 1..Len(call.text) |-> i], call.text) < call.min_chunk_size
           => Len(result.chunks) = 1
\* C15: when the search of generate_rag_response returns no match, the
\* response is the fixed "not covered" answer with confidence 0.0 and no
\* source chunk, no generation request is made and nothing is raised.
C15_NoMatchNotCovered ==
    (result.op = "generate_rag_response" /\ result.response.search.results = <<>>)
    => /\ result.response.answer =
            Answer("not_covered", call.class_level, call.subject)
       /\ result.response.confidence = [sum |-> 0, count |-> 1]
       /\ result.response.source_chunks = <<>>
       /\ result.response.generation_requests = 0
       /\ ~result.response.raised

\* the store holds vectors, the query was made and none is in the scope
C15_Witness ==
    /\ result.op = "generate_rag_response"
    /\ Len(call.store) = 2 /\ call.class_level = "9"
    /\ \A i \in 1..Len(call.store) : call.store[i].metadata.class_level = "10"
    /\ result.response.search.queried /\ ~call.query_raises
    /\ result.response.search.matches = <<>>
    /\ result.response.answer.kind = "not_covered"

\* the scope arguments of the call and the filter keys they go under
ScopeArgs ==
    IF call.op = "search_chapter_content"
    THEN [class_level |-> call.class_level, chapter_id |-> call.chapter]
    ELSE [class_level |-> call.class_level, subject |-> call.subject,
          chapter |-> call.chapter]

\* the search got as far as the store query
Searched ==
    /\ result.op \in {"search_relevant_chunks", "search_chapter_content"}
    /\ result.out.queried

\* the filter passed holds exactly the scope arguments in keys
FilterIs(keys) ==
    /\ DOMAIN result.out.filter = keys
    /\ \A k \in keys : result.out.filter[k] = ScopeArgs[k]

\* one result per match the store ranks for that filter, in its order, with
\* the match's score, text and scope fields
ResultsVerbatim ==
    LET ranked == StoreQuery(call.store, call.top_k, result.out.filter)
        results == result.out.results
    IN
    ~call.query_raises =>
      /\ Len(results) = Len(ranked)
      /\ \A i \in 1..Len(ranked) :
           /\ results[i].score = ranked[i].score
           /\ results[i].text = ranked[i].metadata.text
           /\ \A k \in DOMAIN ScopeArgs : results[i][k] = ranked[i].metadata[k]

\* C19 (as claimed): the filter passed to the store holds exactly the scope
\* arguments that are not null, and the results are the store's matches in
\* ranking order with score, text and scope fields unchanged.
C19_FilterOfNonNullScope ==
    Searched =>
      /\ FilterIs({k \in DOMAIN ScopeArgs : ScopeArgs[k] # None})
      /\ ResultsVerbatim

\* C19 (amended): search_relevant_chunks always filters on class_level, and
\* both searches filter on the other scope arguments exactly when they are
\* neither null nor empty; the results as claimed.
C19_FilterOfNonEmptyScope ==
    Searched =>
      /\ FilterIs({k \in DOMAIN ScopeArgs :
                      \/ Truthy(ScopeArgs[k])
                      \/ (k = "class_level" /\ call.op = "search_relevant_chunks")})
      /\ ResultsVerbatim

\* an empty subject is left out of the filter and both class 10 vectors
\* come back in ranking order
C19_Witness ==
    /\ Searched /\ call.op = "search_relevant_chunks"
    /\ call.class_level = "10" /\ call.subject = "" /\ call.chapter = None
    /\ call.store = RagVectors /\ call.top_k = DefaultTopK
    /\ Len(result.out.results) = 2
    /\ result.out.results[1].score > result.out.results[2].score
\* C17 (as claimed): extracting a document of more than 50 pages gives
\* exactly 50 page texts, and no word of a page after the 50th is in what
\* the extraction returns.
C17_PageCapEnforced ==
    (result.op \in {"extract_text_chunks", "extract_text_from_pdf"}
     /\ call.doc.page_count > PageCap)
    => /\ Len(result.out.text_pages) = PageCap
       /\ \A i \in 1..Len(result.out.chunks) :
            \A k \in 1..Len(result.out.chunks[i]) :
               result.out.chunks[i][k][1] <= PageCap

\* the chunks the word loop gives for the pages read when it is never left early
UncappedChunks ==
    AllChunks(call.doc, result.out.text_pages,
              Len(Concat(result.out.text_pages)) + 1)

\* C18: extract_text_chunks returns at most 50 chunks; when the document
\* gives more, it returns the first 50 of them in document order, and it
\* returns them as an ordinary result.
C18_ChunkCountCapped ==
    result.op = "extract_text_chunks" =>
      /\ Len(result.out.chunks) <= ChunkCap
      /\ result.out.chunks = Prefix(UncappedChunks, ChunkCap)
      /\ Len(UncappedChunks) > ChunkCap => Len(result.out.chunks) = ChunkCap

\* a document that gives more chunks than the loop keeps before it is left
C18_Witness ==
    /\ result.op = "extract_text_chunks"
    /\ Len(UncappedChunks) > BreakAtChunks
    /\ Len(result.out.chunks) = ChunkCap
    /\ result.out.chunks[ChunkCap] = UncappedChunks[ChunkCap]

\* every id in the index is the id create_embeddings gives the chunk
IdsHaveChunkForm ==
    \A id \in DOMAIN index :
        LET md == index[id]
        IN  /\ md.chunk_index \in 0..(ChunkCap - 1)
            /\ id = ChunkId(md.class_level, md.chapter_id, md.chunk_index)

\* C16: the id of chunk i of an ingestion is {classLevel}_{chapterId}_chunk_{i},
\* every id in the index of a (class, chapter) is among the ids delete_chapter
\* enumerates for it, and after delete_chapter's vector delete no vector of
\* that key remains.
C16_DeleteCoversEveryChunkId ==
    /\ IdsHaveChunkForm
    /\ \A id \in DOMAIN index :
          id \in DeleteChapterIds(index[id].class_level,
                                  index[id].chapter_id)
    /\ (last.op = "delete_chapter" /\ last.delete_result = "True")
          => /\ last.after_delete = {}
             /\ Matches(index, last.class_level, last.chapter_id) = {}

\* a deletion has just removed the vectors of an upload of ChunkCap chunks
\* (its record is still there, the deletion having ended at the blob)
C16_Witness ==
    /\ last.op = "delete_chapter"
    /\ last.delete_result = "True"
    /\ last.delete_calls = 1
    /\ index = <<>>
    /\ HasRecord(chapter_metadata, last.class_level, last.chapter_id)
    /\ MetaGet(chapter_metadata, last.class_level, last.chapter_id).text_chunks_count
           = ChunkCap

\* C22: delete_existing_chapter_chunks returns after at most 10 rounds of
\* query and delete whatever the store answers, and returns at once, without
\* another call of the store, when a query answers with no match.
C22_DeleteLoopBounded ==
    /\ [](/\ call.queries <= MaxDeleteBatches
          /\ call.deletes <= call.queries
          /\ call.i <= MaxDeleteBatches
          /\ call.empty_answers > 0 =>
                /\ call.at = "done" /\ result # NoCall
                /\ call.empty_answers = 1
                /\ call.deletes = call.queries - 1)
    /\ <>(call.at = "done" /\ result # NoCall)

\* the store answered every query with matches and the loop gave up
C22_Witness ==
    /\ call.at = "done"
    /\ call.queries = MaxDeleteBatches /\ call.deletes = MaxDeleteBatches
    /\ call.empty_answers = 0
    /\ result.op = "delete_existing_chapter_chunks" /\ result.value

\* detect_chapters has returned
Detected == call.op = "detect_chapters" /\ result # NoCall

\* the positions in the text where a heading stands
HeadingsAt(text) ==
    {k \in 1..Len(text) :
        \E j \in 1..Len(all_patterns) : PatternFinds(all_patterns[j], text[k])}

\* C23: for a text with at least one heading match the segments returned are
\* in ascending order of start offset and do not overlap: every segment
\* starts at the start of a match, segment i ends where segment i+1 starts,
\* and the last segment ends at the end of the text.
C23_SegmentBoundaries ==
    (Detected /\ HeadingsAt(call.text) # {}) =>
        LET ch == result.chapters
            n == Len(ch)
        IN  /\ n >= 1
            /\ \A i \in 1..n :
                  /\ \E k \in HeadingsAt(call.text) : ch[i].start_pos = Offset(call.text, k)
                  /\ ch[i].start_pos <= ch[i].end_pos
            /\ \A k \in HeadingsAt(call.text) :
                  \E i \in 1..n : ch[i].start_pos = Offset(call.text, k)
            /\ \A i \in 1..(n - 1) :
                  /\ ch[i].start_pos <= ch[i + 1].start_pos
                  /\ ch[i].end_pos = ch[i + 1].start_pos
            /\ ch[n].end_pos = Offset(call.text, Len(call.text) + 1)

\* two headings found by later and earlier patterns, with text before,
\* between and after them
C23_Witness ==
    /\ Detected
    /\ call.text = <<"Unit 3", "x", "adhyay 6">>
    /\ Len(result.chapters) = 2
    /\ result.chapters[1].start_pos = 0 /\ result.chapters[2].start_pos = 7

\* C24: when no pattern matches, detect_chapters returns exactly one segment
\* from offset 0 to the length of the text whose content is the whole text,
\* under a generic title.
C24_FallbackSegment ==
    (Detected /\ HeadingsAt(call.text) = {}) =>
        /\ Len(result.chapters) = 1
        /\ result.chapters[1].start_pos = 0
        /\ result.chapters[1].end_pos = Offset(call.text, Len(call.text) + 1)
        /\ result.chapters[1].content = call.text
        /\ result.chapters[1].title \in
               {<<"Complete Text">>, <<call.subject, " - Complete Text">>}

\* a text of plain words and blanks, with a subject
C24_Witness ==
    /\ Detected
    /\ call.text = <<" ", "x", "LF">> /\ call.subject = "Math"
    /\ result.chapters[1].title = <<"Math", " - Complete Text">>
    /\ result.chapters[1].end_pos = 3

\* C30: detect_chapters returns exactly one segment for each heading in the
\* text: no two segments start at the same offset and no segment has an
\* empty span.
C30_OneSegmentPerHeading ==
    Detected =>
        LET ch == result.chapters
        IN  /\ HeadingsAt(call.text) # {} => Len(ch) = Cardinality(HeadingsAt(call.text))
            /\ \A i, j \in 1..Len(ch) : ch[i].start_pos = ch[j].start_pos => i = j
            /\ \A i \in 1..Len(ch) :
                  call.text # <<>> => ch[i].start_pos < ch[i].end_pos

\* C29: the vectors process_textbook makes for two chapters of one class and
\* subject (uploads with different chapter_name values) never share a chunk
\* id: storing an upload that names its chapter replaces no vector of another
\* chapter.
C29_NoIdSharedAcrossChapters ==
    (call.op = "upload_textbook" /\ result # NoCall /\ Truthy(result.chapter_name)) =>
        \A id \in DOMAIN result.replaced :
            result.replaced[id] \in {<<"Sets">>, <<"Algebra">>} =>
                result.replaced[id] = <<result.chapter_name>>

\* C21: when the process has been restarted after an upload for a key
\* succeeded, an upload of the same bytes for the key that is not forced is
\* still skipped as identical, with the chunk count the earlier upload
\* returned.
C21_DedupSurvivesRestart ==
    [][(/\ last.op = "restart"
        /\ last'.op = "upload" /\ ~last'.force /\ last'.new_hash # None
        /\ <<last'.class_level, last'.chapter_id>> \in DOMAIN returned)
       => /\ last'.exit = "skipped_identical_file"
          /\ last'.success
          /\ last'.chunks_created = returned[<<last'.class_level, last'.chapter_id>>]]_vars

\* C25: after any completed operation on a key, a record of the key gives as
\* text_chunks_count the number of vectors the store holds for the key, and
\* without a record the store holds no vector of the key.
C25_RecordMatchesStore ==
    last.op \in {"upload", "regenerate_chunks_only", "delete_chapter"} =>
        IF HasRecord(chapter_metadata, last.class_level, last.chapter_id)
        THEN LastRecord.text_chunks_count = Cardinality(LastKeyVectors)
        ELSE LastKeyVectors = {}

\* C28: when delete_chapter returns success the vectors, the published
\* artifact, the local file and the record of the key are gone; when it
\* returns failure the vectors and the record of the key are both still
\* there.
C28_DeleteAllOrNothing ==
    [][(last'.op = "delete_chapter" /\ requests' = requests + 1) =>
         LET class_level == last'.class_level
             chapter_id == last'.chapter_id
         IN  IF last'.success
             THEN /\ Matches(index', class_level, chapter_id) = {}
                  /\ FirebasePath(class_level, chapter_id) \notin DOMAIN bucket'
                  /\ Filename(class_level, chapter_id) \notin DOMAIN local_files'
                  /\ ~HasRecord(chapter_metadata', class_level, chapter_id)
             ELSE /\ Matches(index', class_level, chapter_id)
                       = Matches(index, class_level, chapter_id)
                  /\ HasRecord(chapter_metadata, class_level, chapter_id)
                       => HasRecord(chapter_metadata', class_level, chapter_id)
                  /\ HasRecord(chapter_metadata', class_level, chapter_id)
                       => Matches(index', class_level, chapter_id) # {}]_vars

\* C26: when two uploads of different files for one (class, chapter) run at
\* the same time, the fingerprint a call computes and the content it
\* extracts are those of the file it was given.
C26_FingerprintOfOwnFile ==
    \A t \in Threads :
        pc[t] # "idle" =>
            /\ tl[t].r.new_hash \in {None, FileHash(tl[t].r.file)}
            /\ tl[t].r.extracted_from \in {None, tl[t].r.file}

\* C27: when two uploads for different chapters of one class level run at
\* the same time and both succeed, the metadata in memory and the metadata
\* file afterwards hold the records of both chapters.
C27_BothRecordsKept ==
    (\A t \in Threads : pc[t] = "done" /\ tl[t].r.success /\ tl[t].r.record_written)
    => \A t \in Threads :
          /\ HasRecord(chapter_metadata, tl[t].r.class_level, tl[t].r.chapter_id)
          /\ HasRecord(metadata_file, tl[t].r.class_level, tl[t].r.chapter_id)

====
